---- MODULE Spec2Model ----
(***************************************************************************)
(* A model of the multimodal ingestion pipeline (ingestion_pipeline/       *)
(* ingest.py, parsers.py, client.py): id generation, text truncation, the  *)
(* per-file processing loop, the directory sweep with its batch flushes    *)
(* and the upsert into the vector store.                                   *)
(*                                                                         *)
(* Python strings are sequences of one-character strings, so that slicing, *)
(* Path.stem / Path.suffix, str.lower and the formatting of an index are   *)
(* computed the way the code computes them.                                *)
(***************************************************************************)
EXTENDS Integers, Sequences, FiniteSets, TLC

(***************************************************************************)
(* Strings                                                                 *)
(***************************************************************************)

\* str.lower() on one character
LowerChar(c) ==
    CASE c = "A" -> "a" [] c = "B" -> "b" [] c = "C" -> "c" [] c = "D" -> "d"
      [] c = "F" -> "f" [] c = "G" -> "g" [] c = "M" -> "m" [] c = "N" -> "n"
      [] c = "P" -> "p" [] c = "X" -> "x" [] c = "Y" -> "y" [] c = "Z" -> "z"
      [] c = "E" -> "e" [] c = "I" -> "i" [] c = "J" -> "j" [] c = "L" -> "l"
      [] c = "O" -> "o" [] c = "R" -> "r" [] c = "V" -> "v" [] c = "W" -> "w"
      [] OTHER -> c

\* str.upper() on one character
UpperChar(c) ==
    CASE c = "a" -> "A" [] c = "b" -> "B" [] c = "c" -> "C" [] c = "d" -> "D"
      [] c = "e" -> "E" [] c = "f" -> "F" [] c = "g" -> "G" [] c = "i" -> "I"
      [] c = "j" -> "J" [] c = "l" -> "L" [] c = "m" -> "M" [] c = "n" -> "N"
      [] c = "o" -> "O" [] c = "p" -> "P" [] c = "v" -> "V" [] c = "w" -> "W"
      [] c = "x" -> "X" [] OTHER -> c

Lower(s) == [i \in 1..Len(s) |-> LowerChar(s[i])]

Upper(s) == [i \in 1..Len(s) |-> UpperChar(s[i])]

\* s[:n] for n >= 0
Prefix(s, n) == SubSeq(s, 1, IF n < Len(s) THEN n ELSE Len(s))

\* s.endswith(t)
EndsWith(s, t) ==
    /\ Len(t) <= Len(s)
    /\ SubSeq(s, Len(s) - Len(t) + 1, Len(s)) = t

\* s.rfind(c): the last 1-based position of c in s, 0 when there is none
RFind(s, c) ==
    LET hits == {i \in 1..Len(s) : s[i] = c}
    IN  IF hits = {} THEN 0 ELSE CHOOSE i \in hits : \A j \in hits : j <= i

\* one decimal digit
Digit(d) ==
    CASE d = 0 -> "0" [] d = 1 -> "1" [] d = 2 -> "2" [] d = 3 -> "3"
      [] d = 4 -> "4" [] d = 5 -> "5" [] d = 6 -> "6" [] d = 7 -> "7"
      [] d = 8 -> "8" [] OTHER -> "9"

\* f"{index}" for an index >= 0
RECURSIVE IntToStr(_)
IntToStr(n) == IF n < 10 THEN <<Digit(n)>> ELSE IntToStr(n \div 10) \o <<Digit(n % 10)>>

(***************************************************************************)
(* pathlib                                                                 *)
(***************************************************************************)

\* Path(p).name: the last component of the path
PathName(p) == SubSeq(p, RFind(p, "/") + 1, Len(p))

\* the position of the dot that starts the suffix of a file name, 0 when the
\* name has no suffix (no dot, a leading dot only, or a trailing dot)
SuffixDot(name) ==
    LET i == RFind(name, ".")
    IN  IF 1 < i /\ i < Len(name) THEN i ELSE 0

\* Path(p).suffix
PathSuffix(p) ==
    LET name == PathName(p)
        i == SuffixDot(name)
    IN  IF i = 0 THEN <<>> ELSE SubSeq(name, i, Len(name))

\* Path(p).stem
PathStem(p) ==
    LET name == PathName(p)
        i == SuffixDot(name)
    IN  IF i = 0 THEN name ELSE SubSeq(name, 1, i - 1)

(***************************************************************************)
(* Literals                                                                *)
(***************************************************************************)

ExtPdf == <<".", "p", "d", "f">>

ExtDocx == <<".", "d", "o", "c", "x">>

ExtMp3 == <<".", "m", "p", "3">>

ExtWav == <<".", "w", "a", "v">>

ExtM4a == <<".", "m", "4", "a">>

ExtFlac == <<".", "f", "l", "a", "c">>

ExtJpg == <<".", "j", "p", "g">>

ExtJpeg == <<".", "j", "p", "e", "g">>

ExtPng == <<".", "p", "n", "g">>

ExtGif == <<".", "g", "i", "f">>

ExtBmp == <<".", "b", "m", "p">>

ExtWebp == <<".", "w", "e", "b", "p">>

\* the chunk types _generate_id is called with, and one it is not
KindImage == <<"i", "m", "a", "g", "e">>

KindAudio == <<"a", "u", "d", "i", "o">>

KindText == <<"t", "e", "x", "t">>

KindOther == <<"t", "b", "l">>

\* index=None, the default of _generate_id's third parameter
None == -1

(***************************************************************************)
(* IngestionPipeline: the extension table and the id generator             *)
(***************************************************************************)

\* self.supported_extensions, in the insertion order of the dict
supported_extensions ==
    << [ext |-> ExtPdf,  type |-> "pdf"],   [ext |-> ExtDocx, type |-> "docx"],
       [ext |-> ExtMp3,  type |-> "audio"], [ext |-> ExtWav,  type |-> "audio"],
       [ext |-> ExtM4a,  type |-> "audio"], [ext |-> ExtFlac, type |-> "audio"],
       [ext |-> ExtJpg,  type |-> "image"], [ext |-> ExtJpeg, type |-> "image"],
       [ext |-> ExtPng,  type |-> "image"], [ext |-> ExtGif,  type |-> "image"],
       [ext |-> ExtBmp,  type |-> "image"], [ext |-> ExtWebp, type |-> "image"] >>

\* ext in self.supported_extensions
IsSupportedExt(ext) == \E k \in 1..Len(supported_extensions) : supported_extensions[k].ext = ext

\* a lookup that takes a file of unknown extension for a PDF
GetFileTypeOrPdf(file_path) ==
    LET ext == Lower(PathSuffix(file_path))
    IN  IF IsSupportedExt(ext)
        THEN LET k == CHOOSE j \in 1..Len(supported_extensions) : supported_extensions[j].ext = ext
             IN  supported_extensions[k].type
        ELSE "pdf"

\* _get_file_type: the table entry of the lowercased suffix, "none" for None
_get_file_type(file_path) ==
    LET ext == Lower(PathSuffix(file_path))
    IN  IF IsSupportedExt(ext)
        THEN LET k == CHOOSE j \in 1..Len(supported_extensions) : supported_extensions[j].ext = ext
             IN  supported_extensions[k].type
        ELSE "none"

\* f"{index}"
IndexStr(index) == IF index = None THEN <<"N", "o", "n", "e">> ELSE IntToStr(index)

\* _generate_id with the image id built from the stem, as the other kinds are
GenerateIdImageStem(filename, chunk_type, index) ==
    LET base_name == PathStem(filename)
    IN  IF chunk_type = KindImage THEN base_name \o <<"_">> \o KindImage
        ELSE IF chunk_type = KindAudio
             THEN base_name \o <<"_", "s", "e", "g", "m", "e", "n", "t", "_">> \o IndexStr(index)
        ELSE IF chunk_type = KindText
             THEN base_name \o <<"_", "c", "h", "u", "n", "k", "_">> \o IndexStr(index)
        ELSE base_name \o <<"_">> \o chunk_type \o <<"_">> \o IndexStr(index)

\* _generate_id(filename, chunk_type, index)
_generate_id(filename, chunk_type, index) ==
    LET base_name == PathStem(filename)
    IN  IF chunk_type = KindImage THEN filename \o <<"_">> \o KindImage
        ELSE IF chunk_type = KindAudio
             THEN base_name \o <<"_", "s", "e", "g", "m", "e", "n", "t", "_">> \o IndexStr(index)
        ELSE IF chunk_type = KindText
             THEN base_name \o <<"_", "c", "h", "u", "n", "k", "_">> \o IndexStr(index)
        ELSE base_name \o <<"_">> \o chunk_type \o <<"_">> \o IndexStr(index)

(***************************************************************************)
(* The files of the model and what the external readers return for them    *)
(* (PyMuPDF, python-docx, the text splitter, Whisper, PIL)                 *)
(***************************************************************************)

\* PDFParser / DOCXParser: RecursiveCharacterTextSplitter(chunk_size=250)
chunk_size == 250

TxtAB == <<"a", "b">>

TxtCD == <<"c", "d">>

TxtEF == <<"e", "f">>

TxtGH == <<"g", "h">>

\* a chunk of the splitter's full size
LongText == [i \in 1..chunk_size |-> "x"]

NameAPdf == <<"a", ".", "p", "d", "f">>

NameADocx == <<"a", ".", "d", "o", "c", "x">>

NameXPdf == <<"x", ".", "p", "d", "f">>

NameBPDF == <<"B", ".", "P", "D", "F">>

NameCPdf == <<"c", ".", "P", "d", "f">>

NameCMp3 == <<"c", ".", "m", "p", "3">>

NameZMp3 == <<"z", ".", "m", "p", "3">>

NamePPng == <<"p", ".", "p", "n", "g">>

NameQPng == <<"q", ".", "p", "n", "g">>

NameNXyz == <<"n", ".", "x", "y", "z">>

NameNoExt == <<"R", "E", "A", "D", "M", "E">>

\* f1.pdf, f2.pdf, ...: PDFs of one page holding one chunk
OneName(k) == <<"f">> \o IntToStr(k) \o ExtPdf

IsOneName(name) ==
    /\ Len(name) > Len(ExtPdf) + 1
    /\ name[1] = "f"
    /\ EndsWith(name, ExtPdf)
    /\ \A i \in 2..(Len(name) - Len(ExtPdf)) : name[i] \in {Digit(d) : d \in 0..9}

\* a PDF page: page.get_text() and what text_splitter.split_text returns for it
Page(chunks) == [text |-> chunks[1], split |-> chunks]

BlankPage == [text |-> <<" ", "\n">>, split |-> <<>>]

\* a Whisper segment
Seg(start, end, text) == [start |-> start, end |-> end, text |-> text]

\* What opening a file of the directory yields: ok = FALSE when the reader raises
\* (fitz.open, Document, model.transcribe, Image.open).
StoredData(name) ==
    CASE name = NameAPdf ->
           [ok |-> TRUE, pages |-> <<Page(<<TxtAB, LongText>>), BlankPage, Page(<<TxtCD>>)>>]
      [] name = NameBPDF -> [ok |-> TRUE, pages |-> <<Page(<<TxtGH>>)>>]
      [] name = NameCPdf -> [ok |-> TRUE, pages |-> <<Page(<<TxtCD>>)>>]
      [] name = NameXPdf -> [ok |-> FALSE]
      [] name = NameADocx -> [ok |-> TRUE, split |-> <<TxtEF, LongText>>]
      [] name = NameCMp3 ->
           [ok |-> TRUE,
            segments |-> <<Seg(0, 4, <<" ", "a">>), Seg(4, 9, <<"b", " ">>),
                           Seg(9, 11, <<"c">>), Seg(11, 13, LongText)>>]
      [] name = NameZMp3 -> [ok |-> FALSE]
      [] name = NamePPng -> [ok |-> TRUE, format |-> "PNG", size |-> <<4, 3>>, mode |-> "P"]
      [] name = NameQPng -> [ok |-> FALSE]
      [] IsOneName(name) -> [ok |-> TRUE, pages |-> <<Page(<<TxtAB>>)>>]
      [] OTHER -> [ok |-> FALSE]

\* the name tempfile.NamedTemporaryFile(suffix=file_ext) gives the file POST
\* /upload saves: tmp, random characters (tag), the suffix
TempName(tag, file_ext) == <<"t", "m", "p">> \o tag \o file_ext

IsTempName(name) == Len(name) > 3 /\ SubSeq(name, 1, 3) = <<"t", "m", "p">>

\* the file POST /upload receives under each extension
UploadedAs(file_ext) ==
    IF file_ext = ExtPdf THEN NameAPdf
    ELSE IF file_ext = ExtDocx THEN NameADocx
    ELSE IF file_ext = ExtMp3 THEN NameCMp3
    ELSE IF file_ext = ExtPng THEN NamePPng
    ELSE NameNXyz

\* the name FileProcessingWorker gives its copy: "{timestamp}_{filename}"
CopyName(timestamp, filename) == IntToStr(timestamp) \o <<"_">> \o filename

IsCopyName(name) ==
    /\ Len(name) > 2
    /\ name[1] \in {Digit(d) : d \in 0..9}
    /\ \E k \in 2..Len(name) : name[k] = "_"

\* the file name a copy was made of: what follows the first underscore
CopiedFrom(name) ==
    SubSeq(name, (CHOOSE k \in 2..Len(name) :
                    name[k] = "_" /\ \A j \in 2..(k - 1) : name[j] # "_") + 1, Len(name))

\* What opening the file yields: a temporary file of POST /upload and a copy of
\* the worker hold what the file they were written from holds.
FileData(name) ==
    IF IsTempName(name) THEN StoredData(UploadedAs(PathSuffix(name)))
    ELSE IF IsCopyName(name) THEN StoredData(CopiedFrom(name))
    ELSE StoredData(name)

(***************************************************************************)
(* parsers.py                                                              *)
(***************************************************************************)

IsSpace(c) == c \in {" ", "\n", "\t"}

\* str.strip()
RECURSIVE Strip(_)
Strip(s) ==
    IF s = <<>> THEN s
    ELSE IF IsSpace(Head(s)) THEN Strip(Tail(s))
    ELSE IF IsSpace(s[Len(s)]) THEN Strip(SubSeq(s, 1, Len(s) - 1))
    ELSE s

\* " ".join(parts)
RECURSIVE JoinSpace(_)
JoinSpace(parts) ==
    IF parts = <<>> THEN <<>>
    ELSE IF Len(parts) = 1 THEN parts[1]
    ELSE parts[1] \o <<" ">> \o JoinSpace(Tail(parts))

\* the chunks of one page with the page numbered from 0
PdfPageChunksZeroBased(source_file, page, page_num) ==
    IF Strip(page.text) = <<>> THEN <<>>
    ELSE [i \in 1..Len(page.split) |->
            [text |-> page.split[i],
             metadata |-> [source_file |-> source_file, type |-> "text",
                           page |-> page_num, chunk_index |-> i - 1]]]

\* the chunks of one PDF page, lines 50-62; page_num is 0-based
PdfPageChunks(source_file, page, page_num) ==
    IF Strip(page.text) = <<>> THEN <<>>
    ELSE [i \in 1..Len(page.split) |->
            [text |-> page.split[i],
             metadata |-> [source_file |-> source_file, type |-> "text",
                           page |-> page_num + 1, chunk_index |-> i - 1]]]

\* the loop over the pages, lines 46-62
RECURSIVE PdfChunksFrom(_, _, _)
PdfChunksFrom(source_file, pages, page_num) ==
    IF page_num >= Len(pages) THEN <<>>
    ELSE PdfPageChunks(source_file, pages[page_num + 1], page_num)
           \o PdfChunksFrom(source_file, pages, page_num + 1)

\* PDFParser.parse on a readable file
PDFParser_parse(file_path) ==
    PdfChunksFrom(PathName(file_path), FileData(PathName(file_path)).pages, 0)

\* lines 102-109
DocxChunks(source_file, text_chunks) ==
    [i \in 1..Len(text_chunks) |->
       [text |-> text_chunks[i],
        metadata |-> [source_file |-> source_file, type |-> "text", chunk_index |-> i - 1]]]

\* DOCXParser.parse on a readable file
DOCXParser_parse(file_path) ==
    DocxChunks(PathName(file_path), FileData(PathName(file_path)).split)

\* f"{n:02d}"
Pad2(n) == IF n < 10 THEN <<"0">> \o IntToStr(n) ELSE IntToStr(n)

\* AudioParser._format_timestamp
_format_timestamp(seconds) ==
    Pad2(seconds \div 3600) \o <<":">> \o Pad2((seconds % 3600) \div 60)
      \o <<":">> \o Pad2(seconds % 60)

\* the window _chunk_by_time appends, lines 184-192 and 198-206
AudioWindow(current_chunk, current_start, current_end) ==
    [text |-> JoinSpace(current_chunk),
     metadata |-> [type |-> "audio",
                   start |-> _format_timestamp(current_start),
                   end |-> _format_timestamp(current_end),
                   start_seconds |-> current_start,
                   end_seconds |-> current_end]]

\* a loop that does not append the window left open after the last segment
RECURSIVE ChunkByTimeNoRemainder(_, _, _, _, _, _)
ChunkByTimeNoRemainder(segments, k, chunk_duration, current_chunk, current_start, current_end) ==
    IF k > Len(segments) THEN <<>>
    ELSE LET segment == segments[k]
             start == IF current_start = -1 THEN segment.start ELSE current_start
             chunk == Append(current_chunk, Strip(segment.text))
             end == segment.end
         IN  IF end - start >= chunk_duration
             THEN <<AudioWindow(chunk, start, end)>>
                    \o ChunkByTimeNoRemainder(segments, k + 1, chunk_duration, <<>>, -1, end)
             ELSE ChunkByTimeNoRemainder(segments, k + 1, chunk_duration, chunk, start, end)

\* a loop that closes a window only when its span exceeds chunk_duration
RECURSIVE ChunkByTimeStrict(_, _, _, _, _, _)
ChunkByTimeStrict(segments, k, chunk_duration, current_chunk, current_start, current_end) ==
    IF k > Len(segments)
    THEN IF current_chunk # <<>>
         THEN <<AudioWindow(current_chunk, current_start, current_end)>>
         ELSE <<>>
    ELSE LET segment == segments[k]
             start == IF current_start = -1 THEN segment.start ELSE current_start
             chunk == Append(current_chunk, Strip(segment.text))
             end == segment.end
         IN  IF end - start > chunk_duration
             THEN <<AudioWindow(chunk, start, end)>>
                    \o ChunkByTimeStrict(segments, k + 1, chunk_duration, <<>>, -1, end)
             ELSE ChunkByTimeStrict(segments, k + 1, chunk_duration, chunk, start, end)

\* the loop of _chunk_by_time from segment k on; current_start = None is -1
RECURSIVE ChunkByTimeFrom(_, _, _, _, _, _)
ChunkByTimeFrom(segments, k, chunk_duration, current_chunk, current_start, current_end) ==
    IF k > Len(segments)
    THEN IF current_chunk # <<>>
         THEN <<AudioWindow(current_chunk, current_start, current_end)>>
         ELSE <<>>
    ELSE LET segment == segments[k]
             start == IF current_start = None THEN segment.start ELSE current_start
             chunk == Append(current_chunk, Strip(segment.text))
             end == segment.end
         IN  IF end - start >= chunk_duration
             THEN <<AudioWindow(chunk, start, end)>>
                    \o ChunkByTimeFrom(segments, k + 1, chunk_duration, <<>>, None, end)
             ELSE ChunkByTimeFrom(segments, k + 1, chunk_duration, chunk, start, end)

\* AudioParser._chunk_by_time
_chunk_by_time(segments, chunk_duration) ==
    ChunkByTimeFrom(segments, 1, chunk_duration, <<>>, None, None)

\* AudioParser.parse's default chunk_duration
default_chunk_duration == 10

\* source_file without the extension
WithSourceStem(chunks, source_file) ==
    [i \in 1..Len(chunks) |->
       [text |-> chunks[i].text,
        metadata |-> [type |-> chunks[i].metadata.type,
                      start |-> chunks[i].metadata.start,
                      end |-> chunks[i].metadata.end,
                      start_seconds |-> chunks[i].metadata.start_seconds,
                      end_seconds |-> chunks[i].metadata.end_seconds,
                      source_file |-> PathStem(source_file)]]]

\* lines 232-237: source_file is added to the metadata of every chunk
WithSourceFile(chunks, source_file) ==
    [i \in 1..Len(chunks) |->
       [text |-> chunks[i].text,
        metadata |-> [type |-> chunks[i].metadata.type,
                      start |-> chunks[i].metadata.start,
                      end |-> chunks[i].metadata.end,
                      start_seconds |-> chunks[i].metadata.start_seconds,
                      end_seconds |-> chunks[i].metadata.end_seconds,
                      source_file |-> source_file]]]

\* AudioParser.parse on a file Whisper transcribes
AudioParser_parse(file_path) ==
    WithSourceFile(_chunk_by_time(FileData(PathName(file_path)).segments,
                                  default_chunk_duration),
                   PathName(file_path))

\* Image.open(file_path).convert("RGB"): a new image, so its format is None,
\* and its mode is "RGB"
ConvertRGB(opened) == [format |-> "None", size |-> opened.size, mode |-> "RGB"]

\* lines 263-272
ImageWithMetadata(image, source_file) ==
    [image |-> image,
     metadata |-> [source_file |-> source_file, type |-> "image", format |-> image.format,
                   size |-> image.size, mode |-> image.mode]]

\* the Python types of the values of a chunk metadata: what PDFParser (56-59),
\* DOCXParser (103-105), _chunk_by_time with AudioParser.parse (186-190, 235) and
\* ImageParser (264-268) write; image.format is None or a str, image.size a tuple
MetadataTypes(metadata) ==
    IF metadata.type = "image"
    THEN [source_file |-> "str", type |-> "str",
          format |-> IF metadata.format = "None" THEN "NoneType" ELSE "str",
          size |-> IF Len(metadata.size) = 2 THEN "tuple" ELSE "int", mode |-> "str"]
    ELSE IF metadata.type = "audio"
    THEN [source_file |-> "str", type |-> "str", start |-> "str", end |-> "str",
          start_seconds |-> "float", end_seconds |-> "float"]
    ELSE [f \in DOMAIN metadata |-> IF f \in {"page", "chunk_index"} THEN "int" ELSE "str"]

\* ImageParser.parse on an image PIL opens
ImageParser_parse(file_path) ==
    ImageWithMetadata(ConvertRGB(FileData(PathName(file_path))), PathName(file_path))

(***************************************************************************)
(* The state                                                               *)
(***************************************************************************)

VARIABLES
    env,            \* what the pipeline was constructed with and runs on: the directory's
                    \* entries, the file system's case rule, the text model's tokenizer,
                    \* max_seq_length and input limit, the image model, the store
    task,           \* the operation the caller runs, again and again, and its argument
    collection,     \* self.collection: the stored entries, in insertion order
    pc,             \* "idle", or "sweep" inside ingest_directory's loop over the files
    sweep,          \* the locals of the running ingest_directory
    upsertLog,      \* the collection.upsert calls of the current or latest operation
    lastInsert,     \* the latest batch_insert call: arguments, collection before, upserts
    lastCall,       \* the latest process_file call and what it returned
    outcome,        \* how the latest completed operation ended for its caller
    lastRun,        \* how the operation completed before that one ended
    faults,         \* the store calls that have raised so far
    probe           \* the arguments and result of the latest direct _generate_id call

vars == <<env, task, collection, pc, sweep, upsertLog, lastInsert, lastCall, outcome,
          lastRun, faults, probe>>

(***************************************************************************)
(* _truncate_text_for_encoding                                             *)
(***************************************************************************)

\* text[:n], n of either sign
Slice(s, n) ==
    IF n >= 0 THEN Prefix(s, n)
    ELSE IF Len(s) + n > 0 THEN SubSeq(s, 1, Len(s) + n) ELSE <<>>

\* int(x * 2.5) for an integer x: truncation toward zero
IntTimes2_5(x) == IF x >= 0 THEN (x * 5) \div 2 ELSE 0 - (((0 - x) * 5) \div 2)

\* a character of two bytes, and the replacement character (three bytes) that
\* decoding writes for a byte sequence that is not a whole character
WideChar == "w"
ReplacementChar == "?"

\* the tokens of one character: the tokenizer "bytes" is a byte-level one that
\* gives a character outside its vocabulary one token per byte; every other
\* tokenizer gives one token per character
CharTokens(c) ==
    IF env.tokenizer = "bytes" /\ c = WideChar THEN <<"w1", "w2">>
    ELSE IF env.tokenizer = "bytes" /\ c = ReplacementChar THEN <<"?1", "?2", "?3">>
    ELSE <<c>>

\* a token: sp tells that whitespace precedes it in the text
Token(sp, t) == [sp |-> sp, t |-> t]

TokenCLS == Token(FALSE, "[CLS]")

TokenSEP == Token(FALSE, "[SEP]")

\* the tokens of a character that follows whitespace (sp) or does not
SpacedTokens(pieces, sp) ==
    [k \in 1..Len(pieces) |-> Token(sp /\ k = 1, pieces[k])]

\* the concatenation of the sequences pieces[lo], ..., pieces[hi]
RECURSIVE Flatten(_, _, _)
Flatten(pieces, lo, hi) ==
    IF lo > hi THEN <<>>
    ELSE IF lo = hi THEN pieces[lo]
    ELSE Flatten(pieces, lo, (lo + hi) \div 2) \o Flatten(pieces, (lo + hi) \div 2 + 1, hi)

\* the tokens of a text: whitespace makes no token of its own
TextTokens(text) ==
    Flatten([i \in 1..Len(text) |->
               IF IsSpace(text[i]) THEN <<>>
               ELSE SpacedTokens(CharTokens(text[i]), i > 1 /\ IsSpace(text[i - 1]))],
            1, Len(text))

\* what token k adds to the decoded text: bytes that are not a whole character
\* are replaced (errors="replace"), a cut-off sequence by one replacement
\* character
DecodedPiece(t, k) ==
    IF t[k].t = "w1"
    THEN IF k < Len(t) /\ t[k + 1].t = "w2" THEN <<WideChar>> ELSE <<ReplacementChar>>
    ELSE IF t[k].t = "w2"
    THEN IF k > 1 /\ t[k - 1].t = "w1" THEN <<>> ELSE <<ReplacementChar>>
    ELSE IF t[k].t = "?1" THEN <<ReplacementChar>>
    ELSE IF t[k].t = "?2"
    THEN IF k > 1 /\ t[k - 1].t = "?1" THEN <<>> ELSE <<ReplacementChar>>
    ELSE IF t[k].t = "?3"
    THEN IF k > 2 /\ t[k - 1].t = "?2" /\ t[k - 2].t = "?1" THEN <<>>
         ELSE <<ReplacementChar>>
    ELSE <<t[k].t>>

\* the text of a token sequence, one space between words
DecodeTokens(t) ==
    Flatten([k \in 1..Len(t) |->
               (IF t[k].sp /\ k > 1 THEN <<" ">> ELSE <<>>) \o DecodedPiece(t, k)],
            1, Len(t))

\* The tokenizer of the model: the tokens of the text between [CLS] and [SEP];
\* with truncation the sequence is cut to max_length tokens, specials included.
Tokenize(text, truncation, max_length) ==
    LET body == IF truncation /\ Len(TextTokens(text)) + 2 > max_length
                THEN Slice(TextTokens(text), IF max_length >= 2 THEN max_length - 2 ELSE 0)
                ELSE TextTokens(text)
    IN  <<TokenCLS>> \o body \o <<TokenSEP>>

\* tokenizer.decode(tokens, skip_special_tokens=True)
Decode(tokens) ==
    DecodeTokens(SelectSeq(tokens, LAMBDA t : t \notin {TokenCLS, TokenSEP}))

\* the tokenizer path, lines 183-235
TokenizerTruncate(text, max_seq_length) ==
    LET tokens == Tokenize(text, TRUE, max_seq_length)
        truncated_text == Decode(tokens)
        verify_tokens == Tokenize(truncated_text, FALSE, 0)
    IN  IF Len(verify_tokens) > max_seq_length
        THEN Decode(Prefix(verify_tokens, max_seq_length))
        ELSE truncated_text

\* a character fallback that keeps the end of the text
CharTruncateTail(text, max_seq_length) ==
    LET max_chars == IntTimes2_5(max_seq_length - 5)
    IN  IF Len(text) > max_chars THEN SubSeq(text, Len(text) - max_chars + 1, Len(text)) ELSE text

\* the character fallback, lines 242-246
CharTruncate(text, max_seq_length) ==
    LET max_chars == IntTimes2_5(max_seq_length - 5)
    IN  IF Len(text) > max_chars THEN Slice(text, max_chars) ELSE text

\* what the tokenizer of the model does when the truncation uses it: "none" the
\* model exposes no tokenizer (165-177); "ok" and "bytes" every call returns;
\* "raises" the first call raises (184); "shape" the call returns a dict without
\* input_ids (194); "raises_decode" decode raises (212); "raises_verify" the
\* second call raises (215)
TokenizerKinds ==
    {"none", "ok", "bytes", "raises", "shape", "raises_decode", "raises_verify"}

\* the tokenizer path ends in the handler of line 236
TokenizerPathRaises ==
    env.tokenizer \in {"raises", "shape", "raises_decode", "raises_verify"}

\* the tokenizer path runs to its return of line 235
TokenizerPathCompletes == env.tokenizer \in {"ok", "bytes"}

\* _truncate_text_for_encoding(text)
_truncate_text_for_encoding(text) ==
    IF text = <<>> \/ Strip(text) = <<>> THEN text
    ELSE IF TokenizerPathCompletes THEN TokenizerTruncate(text, env.max_seq_length)
    ELSE CharTruncate(text, env.max_seq_length)

(***************************************************************************)
(* The embedding models                                                    *)
(***************************************************************************)

\* text_embedding_model.encode(text) raises: the model rejects inputs longer
\* than its limit
EncodeRaises(text) == Len(text) > env.enc_limit

\* the vector encode returns, a function of the text it was given
Encode(text) == <<"text", Len(text)>>

\* the retry's cap, max_chars = 200
max_chars == 200

\* a retry that encodes the whole chunk again
RetryWholeText(text_chunk) == text_chunk

\* the text the retry encodes, lines 310, 342 and 374
RetryText(text_chunk) == IF Len(text_chunk) > max_chars THEN Prefix(text_chunk, max_chars) ELSE text_chunk

\* image_processor + image_model.get_image_features raises: the model is
\* None (image_model=None) or fails
ImageEncodeRaises == env.image_model # "ok"

ImageEncode(image) == <<"image", image.size[1] * image.size[2]>>

(***************************************************************************)
(* process_file                                                            *)
(***************************************************************************)

\* the four lists process_file builds, with the encoder calls made so far and
\* whether the handler of line 414 caught an exception
EmptyBatch(enc_calls, caught) ==
    [ids |-> <<>>, embeddings |-> <<>>, documents |-> <<>>, metadatas |-> <<>>,
     enc_calls |-> enc_calls, caught |-> caught]

\* AppendChunk storing the text that was encoded as the document
AppendChunkEncodedText(acc, chunk_id, embedding, document, metadata, calls) ==
    [ids |-> Append(acc.ids, chunk_id),
     embeddings |-> Append(acc.embeddings, embedding),
     documents |-> Append(acc.documents,
                          IF calls = <<>> THEN document ELSE calls[Len(calls)].text),
     metadatas |-> Append(acc.metadatas, metadata),
     enc_calls |-> acc.enc_calls \o calls,
     caught |-> FALSE]

\* an AppendChunk that leaves the embedding out
AppendChunkNoEmbedding(acc, chunk_id, embedding, document, metadata, calls) ==
    [ids |-> Append(acc.ids, chunk_id),
     embeddings |-> acc.embeddings,
     documents |-> Append(acc.documents, document),
     metadatas |-> Append(acc.metadatas, metadata),
     enc_calls |-> acc.enc_calls \o calls,
     caught |-> FALSE]

\* lines 320-323 (352-355, 384-387, 407-410): the chunk joins the four lists
AppendChunk(acc, chunk_id, embedding, document, metadata, calls) ==
    [ids |-> Append(acc.ids, chunk_id),
     embeddings |-> Append(acc.embeddings, embedding),
     documents |-> Append(acc.documents, document),
     metadatas |-> Append(acc.metadatas, metadata),
     enc_calls |-> acc.enc_calls \o calls,
     caught |-> FALSE]

\* a handler that returns the lists built so far
CaughtKeepsPartial(acc, calls) == [acc EXCEPT !.enc_calls = @ \o calls, !.caught = TRUE]

\* the handler of lines 414-416, reached with the lists acc after the encoder
\* calls `calls`: four empty lists are returned
Caught(acc, calls) == EmptyBatch(acc.enc_calls \o calls, TRUE)

\* the encoder calls for one chunk and what they add to the batch, lines 298-323:
\* encode truncated_text; on an exception encode retry_text; an exception of the
\* retry leaves the loop for the handler of line 414
EncodeAttempts(acc, chunk, chunk_id, truncated_text, retry_text, i) ==
    IF ~EncodeRaises(truncated_text)
    THEN AppendChunk(acc, chunk_id, Encode(truncated_text), chunk.text, chunk.metadata,
                     <<[chunk |-> i, text |-> truncated_text, ok |-> TRUE]>>)
    ELSE IF ~EncodeRaises(retry_text)
    THEN AppendChunk(acc, chunk_id, Encode(retry_text), chunk.text, chunk.metadata,
                     <<[chunk |-> i, text |-> truncated_text, ok |-> FALSE],
                       [chunk |-> i, text |-> retry_text, ok |-> TRUE]>>)
    ELSE Caught(acc, <<[chunk |-> i, text |-> truncated_text, ok |-> FALSE],
                       [chunk |-> i, text |-> retry_text, ok |-> FALSE]>>)

\* a pass that numbers the id of a text chunk by the chunk_index of its metadata
EncodeChunkByChunkIndex(acc, chunk, filename, chunk_type, i) ==
    EncodeAttempts(acc, chunk,
                   _generate_id(filename, chunk_type,
                                IF chunk_type = KindText THEN chunk.metadata.chunk_index ELSE i),
                   _truncate_text_for_encoding(chunk.text), RetryText(chunk.text), i)

\* one pass of the loop over the chunks of a PDF, DOCX or audio file, for the
\* chunk of 0-based index i
EncodeChunk(acc, chunk, filename, chunk_type, i) ==
    EncodeAttempts(acc, chunk, _generate_id(filename, chunk_type, i),
                   _truncate_text_for_encoding(chunk.text), RetryText(chunk.text), i)

\* the loop from chunk k (1-based) on
RECURSIVE EncodeChunks(_, _, _, _, _)
EncodeChunks(chunks, filename, chunk_type, k, acc) ==
    IF k > Len(chunks) \/ acc.caught THEN acc
    ELSE EncodeChunks(chunks, filename, chunk_type, k + 1,
                      EncodeChunk(acc, chunks[k], filename, chunk_type, k - 1))

\* lines 405-410: the one chunk of an image
ImageChunk(filename, parsed) ==
    AppendChunk(EmptyBatch(<<>>, FALSE), _generate_id(filename, KindImage, None),
                ImageEncode(parsed.image), <<"N", "/", "A">>, parsed.metadata, <<>>)

\* an image branch that returns a chunk whether or not the image encoder raised
ProcessImageUnencoded(file_path) ==
    IF ~FileData(PathName(file_path)).ok
    THEN Caught(EmptyBatch(<<>>, FALSE), <<>>)
    ELSE ImageChunk(PathName(file_path), ImageParser_parse(file_path))

\* the image branch, lines 389-410
ProcessImage(file_path) ==
    IF ~FileData(PathName(file_path)).ok \/ ImageEncodeRaises
    THEN Caught(EmptyBatch(<<>>, FALSE), <<>>)
    ELSE ImageChunk(PathName(file_path), ImageParser_parse(file_path))

\* the dispatch of lines 290-410 on a supported file
ProcessByType(file_path, file_type, filename) ==
    IF file_type = "image" THEN ProcessImage(file_path)
    ELSE IF ~FileData(filename).ok THEN Caught(EmptyBatch(<<>>, FALSE), <<>>)
    ELSE IF file_type = "pdf"
         THEN EncodeChunks(PDFParser_parse(file_path), filename, KindText, 1,
                           EmptyBatch(<<>>, FALSE))
    ELSE IF file_type = "docx"
         THEN EncodeChunks(DOCXParser_parse(file_path), filename, KindText, 1,
                           EmptyBatch(<<>>, FALSE))
    ELSE EncodeChunks(AudioParser_parse(file_path), filename, KindAudio, 1,
                      EmptyBatch(<<>>, FALSE))

\* process_file(file_path)
process_file(file_path) ==
    IF _get_file_type(file_path) = "none" THEN EmptyBatch(<<>>, FALSE)
    ELSE ProcessByType(file_path, _get_file_type(file_path), PathName(file_path))

(***************************************************************************)
(* The vector store and batch_insert                                       *)
(***************************************************************************)

\* the position of id in the collection, 0 when it is absent
PositionOf(coll, id) ==
    LET hits == {i \in 1..Len(coll) : coll[i].id = id}
    IN  IF hits = {} THEN 0 ELSE CHOOSE i \in hits : TRUE

\* collection.add of one entry: always a new entry
AddOne(coll, entry) == Append(coll, entry)

\* collection.upsert of one entry: overwrite the entry of that id, or add it
UpsertOne(coll, entry) ==
    IF PositionOf(coll, entry.id) = 0 THEN Append(coll, entry)
    ELSE [coll EXCEPT ![PositionOf(coll, entry.id)] = entry]

\* collection.upsert(ids, embeddings, documents, metadatas) when it returns
RECURSIVE Upsert(_, _, _, _, _, _)
Upsert(coll, ids, embeddings, documents, metadatas, k) ==
    IF k > Len(ids) THEN coll
    ELSE Upsert(UpsertOne(coll, [id |-> ids[k], embedding |-> embeddings[k],
                                 document |-> documents[k], metadata |-> metadatas[k]]),
                ids, embeddings, documents, metadatas, k + 1)

\* collection.count()
Count(coll) == Len(coll)

\* the record of one collection.upsert call
UpsertCall(ids, embeddings, documents, metadatas, ok) ==
    [ids |-> ids, embeddings |-> embeddings, documents |-> documents,
     metadatas |-> metadatas, ok |-> ok]

\* a batch_insert that upserts the items one call at a time
BatchInsertEach(coll, ids, embeddings, documents, metadatas, store_ok) ==
    [collection |-> IF store_ok THEN Upsert(coll, ids, embeddings, documents, metadatas, 1)
                    ELSE coll,
     calls |-> [k \in 1..Len(ids) |->
                  UpsertCall(<<ids[k]>>, <<embeddings[k]>>, <<documents[k]>>,
                             <<metadatas[k]>>, store_ok)]]

\* batch_insert(ids, embeddings, documents, metadatas) on collection coll, where
\* store_ok tells whether the store completes the upsert or raises: the collection
\* afterwards and the upsert calls made (none or one). The exception is caught.
batch_insert(coll, ids, embeddings, documents, metadatas, store_ok) ==
    IF ids = <<>> THEN [collection |-> coll, calls |-> <<>>]
    ELSE [collection |-> IF store_ok
                         THEN Upsert(coll, ids, embeddings, documents, metadatas, 1)
                         ELSE coll,
          calls |-> <<UpsertCall(ids, embeddings, documents, metadatas, store_ok)>>]

(***************************************************************************)
(* ingest_directory: the enumeration of the files                          *)
(***************************************************************************)

\* the directory every operation of the model works on
DirPath == <<"d">>

FilePath(name) == DirPath \o <<"/">> \o name

\* directory.glob("*" + ext): the entries whose name ends with ext, in the order
\* the file system lists them; pathlib matches by the platform's case rule
Glob(entries, ext, case_insensitive) ==
    SelectSeq(entries,
              LAMBDA name : IF case_insensitive
                            THEN EndsWith(Lower(name), Lower(ext))
                            ELSE EndsWith(name, ext))

\* lines 437-440, from table entry k on
RECURSIVE FilesToProcessFrom(_, _, _)
FilesToProcessFrom(entries, case_insensitive, k) ==
    IF k > Len(supported_extensions) THEN <<>>
    ELSE Glob(entries, supported_extensions[k].ext, case_insensitive)
           \o Glob(entries, Upper(supported_extensions[k].ext), case_insensitive)
           \o FilesToProcessFrom(entries, case_insensitive, k + 1)

\* files_to_process, as paths
FilesToProcess(entries, case_insensitive) ==
    LET names == FilesToProcessFrom(entries, case_insensitive, 1)
    IN  [i \in 1..Len(names) |-> FilePath(names[i])]

(***************************************************************************)
(* Bounds and the worlds the pipeline is run in                            *)
(***************************************************************************)

\* the largest directory of one-chunk files
MaxN == 3

\* the largest batch_size passed to ingest_directory
MaxBatch == 2

\* the most store calls that raise in one behaviour
MaxFaults == 1

\* <<f1.pdf, ..., fn.pdf>>
OneChunkDir(n) == [k \in 1..n |-> OneName(k)]

\* the directories: their entries in the order the file system lists them
Directories ==
    {OneChunkDir(n) : n \in 0..MaxN}
      \cup { <<NameAPdf, NameADocx>>,
             <<NameXPdf, OneName(1), OneName(2)>>,
             <<OneName(1), NameAPdf, NameZMp3, NameCMp3>>,
             <<NamePPng, NameQPng, NameNXyz, NameBPDF, NameCPdf, NameNoExt>> }

\* models under which nothing is truncated and every input is encoded
PlainModels ==
    { [tokenizer |-> "none", max_seq_length |-> 512, enc_limit |-> 1000, image_model |-> "ok"] }

\* the models the pipeline is constructed with
Models ==
    PlainModels \cup {
      \* the tokenizer shortens a long chunk and the encoder takes the result
      [tokenizer |-> "ok", max_seq_length |-> 8, enc_limit |-> 220, image_model |-> "ok"],
      \* a long chunk is rejected untruncated and encoded on the retry; image_model=None
      [tokenizer |-> "none", max_seq_length |-> 512, enc_limit |-> 220, image_model |-> "none"],
      \* the tokenizer raises; a long chunk is rejected on both attempts, a short one encoded
      [tokenizer |-> "raises", max_seq_length |-> 8, enc_limit |-> 5, image_model |-> "ok"],
      \* every encode call raises, of the text model and of the image model
      [tokenizer |-> "ok", max_seq_length |-> 512, enc_limit |-> 0, image_model |-> "fails"] }

\* a pipeline's world: store tells whether calls of the vector store may raise
World(d, ci, m, store) ==
    [dir |-> d, case_insensitive |-> ci, tokenizer |-> m.tokenizer,
     max_seq_length |-> m.max_seq_length, enc_limit |-> m.enc_limit,
     image_model |-> m.image_model, store |-> store]

\* Every directory, file system and model with a store that never raises; a store
\* that may raise is paired with the plain models only, since what the store does
\* depends on no model.
Worlds ==
    {World(d, ci, m, "sound") : d \in Directories, ci \in BOOLEAN, m \in Models}
      \cup {World(d, ci, m, "flaky") : d \in Directories, ci \in BOOLEAN, m \in PlainModels}

\* a path that does not exist
MissingPath == <<"m", "i", "s", "s", "i", "n", "g">>

\* an existence check that every path passes
AnyDirectoryExists(directory_path) == TRUE

\* directory.exists(), line 429
DirectoryExists(directory_path) == directory_path = DirPath

\* what the globs of lines 437-440 range over: the entries of the directory,
\* nothing for a path that is no directory
Entries(directory_path) == IF directory_path = DirPath THEN env.dir ELSE <<>>

\* an entry the store holds before the pipeline is constructed on it
Stored(id, document) ==
    [id |-> id, embedding |-> <<"text", Len(document)>>, document |-> document,
     metadata |-> [source_file |-> <<"o", "l", "d">>, type |-> "text", chunk_index |-> 0]]

\* the collections the pipeline is constructed on: a new one, and one that holds
\* entries of an earlier ingestion, two of them under ids the files produce again
StartCollections ==
    { <<>>,
      << Stored(<<"f", "1", "_", "c", "h", "u", "n", "k", "_", "0">>, <<"o", "l", "d">>),
         Stored(<<"u", "_", "c", "h", "u", "n", "k", "_", "0">>, <<"u">>),
         Stored(<<"a", "_", "c", "h", "u", "n", "k", "_", "1">>, <<"o", "l", "d">>) >> }

Task(op, path, batch_size) == [op |-> op, path |-> path, batch_size |-> batch_size]

\* what a caller may run on the directory entries
Tasks(entries) ==
    {Task("ingest_directory", DirPath, b) : b \in 0..MaxBatch}
      \cup {Task("ingest_directory", MissingPath, 1)}
      \cup {Task(op, FilePath(entries[k]), 0) :
              op \in {"upload_file", "process_file"}, k \in 1..Len(entries)}

(***************************************************************************)
(* The operations                                                          *)
(***************************************************************************)

NoSweep ==
    [files |-> <<>>, i |-> 0, batch_size |-> 0, all_ids |-> <<>>, all_embeddings |-> <<>>,
     all_documents |-> <<>>, all_metadatas |-> <<>>, produced |-> <<>>, faulted |-> FALSE]

\* how an operation ended: "returned" or the exception its caller got, the ids
\* its process_file calls returned, the collection's size afterwards, whether
\* one of its upsert calls raised
Ended(op, result, ids, count, faulted) ==
    [op |-> op, result |-> result, ids |-> ids, count |-> count, faulted |-> faulted]

NoOperation == Ended("none", "returned", <<>>, 0, FALSE)

NoCall == [fn |-> "none", path |-> <<>>, result |-> EmptyBatch(<<>>, FALSE)]

\* a batch_insert call: its arguments, the collection before it and the upsert
\* calls it made
Inserted(ids, embeddings, documents, metadatas, before, calls) ==
    [fn |-> "batch_insert", ids |-> ids, embeddings |-> embeddings, documents |-> documents,
     metadatas |-> metadatas, before |-> before, calls |-> calls]

NoInsert == [Inserted(<<>>, <<>>, <<>>, <<>>, <<>>, <<>>) EXCEPT !.fn = "none"]

\* a direct call of _generate_id: its arguments, whether it has returned, its result
Probe(filename, chunk_type, index, called, id) ==
    [filename |-> filename, chunk_type |-> chunk_type, index |-> index, called |-> called,
     id |-> id]

NoProbe == Probe(<<>>, <<>>, 0, FALSE, <<>>)

InitPipeline ==
    /\ pc = "idle"
    /\ sweep = NoSweep
    /\ upsertLog = <<>>
    /\ lastInsert = NoInsert
    /\ lastCall = NoCall
    /\ outcome = NoOperation
    /\ lastRun = NoOperation
    /\ faults = 0

Init ==
    /\ env \in Worlds
    /\ task \in Tasks(env.dir)
    /\ collection \in StartCollections
    /\ probe = NoProbe
    /\ InitPipeline

\* the store calls an operation may see raise: none once MaxFaults have raised
Outcomes == IF env.store = "flaky" /\ faults < MaxFaults THEN BOOLEAN ELSE {TRUE}

\* ingest_directory on a path that does not exist: lines 428-430
IngestDirectoryMissing ==
    /\ pc = "idle"
    /\ task.op = "ingest_directory"
    /\ ~DirectoryExists(task.path)
    /\ outcome' = Ended("ingest_directory", "ValueError", <<>>, Count(collection), FALSE)
    /\ lastRun' = outcome
    /\ upsertLog' = <<>>
    /\ lastInsert' = NoInsert
    /\ lastCall' = NoCall
    /\ UNCHANGED <<env, task, collection, pc, sweep, faults, probe>>

\* ingest_directory(DirPath, batch_size) up to the loop: lines 428-452
IngestDirectoryStart ==
    /\ pc = "idle"
    /\ task.op = "ingest_directory"
    /\ DirectoryExists(task.path)
    /\ LET files_to_process == FilesToProcess(Entries(task.path), env.case_insensitive)
       IN  IF files_to_process = <<>>
           THEN /\ outcome' = Ended("ingest_directory", "returned", <<>>, Count(collection),
                                    FALSE)
                /\ lastRun' = outcome
                /\ UNCHANGED <<pc, sweep>>
           ELSE /\ pc' = "sweep"
                /\ sweep' = [NoSweep EXCEPT !.files = files_to_process, !.i = 1,
                                            !.batch_size = task.batch_size]
                /\ UNCHANGED <<outcome, lastRun>>
    /\ upsertLog' = <<>>
    /\ lastInsert' = NoInsert
    /\ lastCall' = NoCall
    /\ UNCHANGED <<env, task, collection, faults, probe>>

\* a flush that keeps the items of a failed batch for the next one
FlushedKeepsFailed(s, r, all_ids, all_embeddings, all_documents, all_metadatas, store_ok) ==
    [s EXCEPT !.i = @ + 1,
              !.all_ids = IF store_ok THEN <<>> ELSE all_ids,
              !.all_embeddings = IF store_ok THEN <<>> ELSE all_embeddings,
              !.all_documents = IF store_ok THEN <<>> ELSE all_documents,
              !.all_metadatas = IF store_ok THEN <<>> ELSE all_metadatas,
              !.produced = @ \o r.ids,
              !.faulted = @ \/ ~store_ok]

\* a flush that resets the accumulators to the chunks of the file just processed
FlushedKeepsFile(s, r, all_ids, all_embeddings, all_documents, all_metadatas, store_ok) ==
    [s EXCEPT !.i = @ + 1,
              !.all_ids = r.ids,
              !.all_embeddings = r.embeddings,
              !.all_documents = r.documents,
              !.all_metadatas = r.metadatas,
              !.produced = @ \o r.ids,
              !.faulted = @ \/ ~store_ok]

\* the locals after the flush of lines 463-465 that ends the pass for the file
\* with result r: the accumulators are reset, whatever the upsert did
Flushed(s, r, all_ids, all_embeddings, all_documents, all_metadatas, store_ok) ==
    [s EXCEPT !.i = @ + 1,
              !.all_ids = <<>>,
              !.all_embeddings = <<>>,
              !.all_documents = <<>>,
              !.all_metadatas = <<>>,
              !.produced = @ \o r.ids,
              !.faulted = @ \/ ~store_ok]

\* lines 462-465 with the accumulators extended by the file's chunks: flush and
\* reset when batch_size items are reached
SweepFlush(r, all_ids, all_embeddings, all_documents, all_metadatas) ==
    IF Len(all_ids) >= sweep.batch_size
    THEN \E store_ok \in (IF all_ids = <<>> THEN {TRUE} ELSE Outcomes) :
           /\ collection' = batch_insert(collection, all_ids, all_embeddings, all_documents,
                                         all_metadatas, store_ok).collection
           /\ upsertLog' = upsertLog \o batch_insert(collection, all_ids, all_embeddings,
                                                     all_documents, all_metadatas,
                                                     store_ok).calls
           /\ lastInsert' = Inserted(all_ids, all_embeddings, all_documents, all_metadatas,
                                     collection, SubSeq(upsertLog', Len(upsertLog) + 1,
                                                        Len(upsertLog')))
           /\ faults' = IF store_ok THEN faults ELSE faults + 1
           /\ sweep' = Flushed(sweep, r, all_ids, all_embeddings, all_documents,
                               all_metadatas, store_ok)
    ELSE /\ sweep' = [sweep EXCEPT !.i = @ + 1,
                                   !.all_ids = all_ids,
                                   !.all_embeddings = all_embeddings,
                                   !.all_documents = all_documents,
                                   !.all_metadatas = all_metadatas,
                                   !.produced = @ \o r.ids]
         /\ UNCHANGED <<collection, upsertLog, lastInsert, faults>>

\* lines 455-465 for the result r of process_file(file_path)
SweepExtend(file_path, r) ==
    /\ lastCall' = [fn |-> "process_file", path |-> file_path, result |-> r]
    /\ SweepFlush(r, sweep.all_ids \o r.ids, sweep.all_embeddings \o r.embeddings,
                  sweep.all_documents \o r.documents, sweep.all_metadatas \o r.metadatas)

\* one pass of the loop of lines 454-465: process_file on the next file, extend
\* the accumulators, flush and reset them when batch_size items are reached
SweepFile ==
    /\ pc = "sweep"
    /\ sweep.i <= Len(sweep.files)
    /\ SweepExtend(sweep.files[sweep.i], process_file(sweep.files[sweep.i]))
    /\ UNCHANGED <<env, task, pc, outcome, lastRun, probe>>

\* lines 468-473 when the remaining items are inserted with the upsert calls
\* `calls` leaving the collection `after`
SweepEnd(store_ok, count_ok, after, calls) ==
    /\ faults' = IF store_ok /\ count_ok THEN faults ELSE faults + 1
    /\ collection' = after
    /\ upsertLog' = upsertLog \o calls
    /\ lastInsert' = IF sweep.all_ids = <<>> THEN lastInsert
                     ELSE Inserted(sweep.all_ids, sweep.all_embeddings, sweep.all_documents,
                                   sweep.all_metadatas, collection, calls)
    /\ outcome' = Ended("ingest_directory", IF count_ok THEN "returned" ELSE "CountError",
                        sweep.produced, Count(after), sweep.faulted \/ ~store_ok)

\* after the loop, lines 467-473: insert the remaining items, then log
\* collection.count(), whose exception nothing catches
SweepFinish ==
    /\ pc = "sweep"
    /\ sweep.i > Len(sweep.files)
    /\ \E store_ok \in (IF sweep.all_ids = <<>> THEN {TRUE} ELSE Outcomes) :
         \E count_ok \in (IF store_ok THEN Outcomes ELSE {TRUE}) :
           SweepEnd(store_ok, count_ok,
                    batch_insert(collection, sweep.all_ids, sweep.all_embeddings,
                                 sweep.all_documents, sweep.all_metadatas,
                                 store_ok).collection,
                    batch_insert(collection, sweep.all_ids, sweep.all_embeddings,
                                 sweep.all_documents, sweep.all_metadatas, store_ok).calls)
    /\ lastRun' = outcome
    /\ pc' = "idle"
    /\ sweep' = NoSweep
    /\ UNCHANGED <<env, task, lastCall, probe>>

\* a direct call of process_file returning r
ProcessFileReturns(r) ==
    /\ lastCall' = [fn |-> "process_file", path |-> task.path, result |-> r]
    /\ outcome' = Ended("process_file", "returned", r.ids, Count(collection), FALSE)

\* a direct call of process_file
ProcessFileCall ==
    /\ pc = "idle"
    /\ task.op = "process_file"
    /\ ProcessFileReturns(process_file(task.path))
    /\ lastRun' = outcome
    /\ upsertLog' = <<>>
    /\ lastInsert' = NoInsert
    /\ UNCHANGED <<env, task, collection, pc, sweep, faults, probe>>

\* upload_file, lines 84-91: batch_insert of the chunks, then the reply with
\* collection.count(), whose exception nothing catches
UploadInsert(r, store_ok, count_ok, done) ==
    /\ faults' = IF store_ok /\ count_ok THEN faults ELSE faults + 1
    /\ collection' = done.collection
    /\ upsertLog' = done.calls
    /\ lastInsert' = Inserted(r.ids, r.embeddings, r.documents, r.metadatas, collection,
                              done.calls)
    /\ outcome' = Ended("upload_file", IF count_ok THEN "returned" ELSE "CountError",
                        r.ids, Count(done.collection), ~store_ok)

\* upload_file, lines 78-91, for the result r of process_file(file_path)
UploadProcessed(file_path, r) ==
    /\ lastCall' = [fn |-> "process_file", path |-> file_path, result |-> r]
    /\ IF r.ids = <<>>
       THEN /\ outcome' = Ended("upload_file", "RuntimeError", <<>>, Count(collection), FALSE)
            /\ upsertLog' = <<>>
            /\ lastInsert' = NoInsert
            /\ UNCHANGED <<collection, faults>>
       ELSE \E store_ok \in Outcomes :
              \E count_ok \in (IF store_ok THEN Outcomes ELSE {TRUE}) :
                UploadInsert(r, store_ok, count_ok,
                             batch_insert(collection, r.ids, r.embeddings, r.documents,
                                          r.metadatas, store_ok))

\* IngestionClient.upload_file(file_path), lines 65-91: the extension check,
\* process_file, batch_insert, collection.count()
UploadFile ==
    /\ pc = "idle"
    /\ task.op = "upload_file"
    /\ IF ~IsSupportedExt(Lower(PathSuffix(task.path)))
       THEN /\ outcome' = Ended("upload_file", "ValueError", <<>>, Count(collection), FALSE)
            /\ upsertLog' = <<>>
            /\ lastInsert' = NoInsert
            /\ lastCall' = NoCall
            /\ UNCHANGED <<collection, faults>>
       ELSE UploadProcessed(task.path, process_file(task.path))
    /\ lastRun' = outcome
    /\ UNCHANGED <<env, task, pc, sweep, probe>>

Next ==
    \/ IngestDirectoryMissing
    \/ IngestDirectoryStart
    \/ SweepFile
    \/ SweepFinish
    \/ ProcessFileCall
    \/ UploadFile

Spec == Init /\ [][Next]_vars

(***************************************************************************)
(* _generate_id called directly                                            *)
(***************************************************************************)

NameReportPdf == <<"r", "e", "p", "o", "r", "t", ".", "p", "d", "f">>

NameClipMp3 == <<"c", "l", "i", "p", ".", "m", "p", "3">>

NamePhotoPng == <<"p", "h", "o", "t", "o", ".", "p", "n", "g">>

NameTarGz == <<"a", ".", "t", "a", "r", ".", "g", "z">>

NameDotEnv == <<".", "e", "n", "v">>

\* the largest index _generate_id is probed with
MaxIndex == 12

ProbeNames == {NameReportPdf, NameClipMp3, NamePhotoPng, NameTarGz, NameDotEnv, NameNoExt}

ProbeKinds == {KindImage, KindAudio, KindText, KindOther}

ProbeIndexes == {None} \cup 0..MaxIndex

\* a pipeline on an empty directory, on which nothing but _generate_id is called
InitId ==
    /\ env \in {World(<<>>, FALSE, m, "sound") : m \in PlainModels}
    /\ task = Task("_generate_id", <<>>, 0)
    /\ collection = <<>>
    /\ probe \in {Probe(filename, chunk_type, index, FALSE, <<>>) :
                    filename \in ProbeNames, chunk_type \in ProbeKinds,
                    index \in ProbeIndexes}
    /\ InitPipeline

\* self._generate_id(filename, chunk_type, index)
GenerateIdCall ==
    /\ task.op = "_generate_id"
    /\ ~probe.called
    /\ probe' = [probe EXCEPT !.called = TRUE,
                              !.id = _generate_id(probe.filename, probe.chunk_type,
                                                  probe.index)]
    /\ UNCHANGED <<env, task, collection, pc, sweep, upsertLog, lastInsert, lastCall,
                   outcome, lastRun, faults>>

NextId == GenerateIdCall

SpecId == InitId /\ [][NextId]_vars

(***************************************************************************)
(* _truncate_text_for_encoding as a function of its input: every text up   *)
(* to a bounded length, every behaviour of the tokenizer and a range of    *)
(* sequence lengths                                                        *)
(***************************************************************************)

MaxTextLen == 7

MaxSeqLength == 8

\* the shortest sequence length for which the character limit is not negative
MinSeqLength == 5

TextAlphabet == {"a", WideChar, " "}

Texts == UNION {[1..n -> TextAlphabet] : n \in 0..MaxTextLen}

TruncModels ==
    { [tokenizer |-> t, max_seq_length |-> n, enc_limit |-> 1000, image_model |-> "ok"] :
        t \in TokenizerKinds, n \in MinSeqLength..MaxSeqLength }

TruncProbe(text, called, result) == [text |-> text, called |-> called, result |-> result]

InitTrunc ==
    /\ env \in {World(<<>>, FALSE, m, "sound") : m \in TruncModels}
    /\ task = Task("_truncate_text_for_encoding", <<>>, 0)
    /\ collection = <<>>
    /\ probe \in {TruncProbe(text, FALSE, <<>>) : text \in Texts}
    /\ InitPipeline

\* self._truncate_text_for_encoding(text)
TruncateCall ==
    /\ task.op = "_truncate_text_for_encoding"
    /\ ~probe.called
    /\ probe' = TruncProbe(probe.text, TRUE, _truncate_text_for_encoding(probe.text))
    /\ UNCHANGED <<env, task, collection, pc, sweep, upsertLog, lastInsert, lastCall,
                   outcome, lastRun, faults>>

NextTrunc == TruncateCall

SpecTrunc == InitTrunc /\ [][NextTrunc]_vars

(***************************************************************************)
(* _chunk_by_time as a function of its input: every list of up to MaxSegs  *)
(* segments in time order, as a transcription returns them, and a range of *)
(* chunk durations                                                         *)
(***************************************************************************)

MaxSegs == 3

MaxTime == 4

MaxDuration == 3

SegTexts == {<<"a">>, <<" ", "b", " ">>}

Segs == {Seg(b, e, t) : b \in 0..MaxTime, e \in 0..MaxTime, t \in SegTexts}

\* a segment does not end before it starts nor start before the previous one ends
InTimeOrder(segments) ==
    /\ \A k \in 1..Len(segments) : segments[k].start <= segments[k].end
    /\ \A k \in 1..Len(segments) - 1 : segments[k].end <= segments[k + 1].start

ExampleSegments ==
    <<Seg(0, 4, <<"a">>), Seg(4, 9, <<"b">>), Seg(9, 11, <<"c">>)>>

SegmentLists ==
    {ExampleSegments}
      \cup UNION {{segments \in [1..n -> Segs] : InTimeOrder(segments)} : n \in 0..MaxSegs}

ChunkDurations == 1..MaxDuration \cup {default_chunk_duration}

ChunkProbe(segments, chunk_duration, called, result) ==
    [segments |-> segments, chunk_duration |-> chunk_duration, called |-> called,
     result |-> result]

InitChunk ==
    /\ env \in {World(<<>>, FALSE, m, "sound") : m \in PlainModels}
    /\ task = Task("_chunk_by_time", <<>>, 0)
    /\ collection = <<>>
    /\ probe \in {ChunkProbe(segments, chunk_duration, FALSE, <<>>) :
                    segments \in SegmentLists, chunk_duration \in ChunkDurations}
    /\ InitPipeline

\* self._chunk_by_time(segments, chunk_duration)
ChunkByTimeCall ==
    /\ task.op = "_chunk_by_time"
    /\ ~probe.called
    /\ probe' = ChunkProbe(probe.segments, probe.chunk_duration, TRUE,
                           _chunk_by_time(probe.segments, probe.chunk_duration))
    /\ UNCHANGED <<env, task, collection, pc, sweep, upsertLog, lastInsert, lastCall,
                   outcome, lastRun, faults>>

NextChunk == ChunkByTimeCall

SpecChunk == InitChunk /\ [][NextChunk]_vars

(***************************************************************************)
(* The metadata filter of a search, in the REST handler and in the client, *)
(* as a function of the filter given                                       *)
(***************************************************************************)

\* the values of a filter: Python's None, dicts (items is their size), strings,
\* integers, booleans and lists
NoneValue == [kind |-> "none", x |-> FALSE]
DictValue(items) == [kind |-> "dict", items |-> items]
StrValue(s) == [kind |-> "str", s |-> s]
IntValue(n) == [kind |-> "int", n |-> n]
BoolValue(b) == [kind |-> "bool", b |-> b]
ListValue(size) == [kind |-> "list", size |-> size]

WhereValues ==
    {NoneValue, DictValue(0), DictValue(1), StrValue(<<>>), StrValue(<<"t", "e", "x", "t">>),
     IntValue(0), IntValue(2), BoolValue(FALSE), BoolValue(TRUE), ListValue(0)}

WhereKeys == {"type", "source", "page"}

\* where=None
NoWhere == [kind |-> "none", x |-> TRUE]

\* a filter is absent or a dict from keys to values
WhereInputs == {NoWhere} \cup UNION {[d -> WhereValues] : d \in SUBSET WhereKeys}

\* the keyword arguments of collection.query: where is sent or not
QueryKwargs(has_where, where) == [has_where |-> has_where, where |-> where]

\* a cleaning that keeps the values Python takes for true
TruthyWhere(where) ==
    IF where = NoWhere \/ DOMAIN where = {}
    THEN QueryKwargs(FALSE, <<>>)
    ELSE LET kept == {k \in DOMAIN where :
                        where[k] \notin {NoneValue, DictValue(0), StrValue(<<>>), IntValue(0),
                                         BoolValue(FALSE), ListValue(0)}}
         IN  IF kept # {} THEN QueryKwargs(TRUE, [k \in kept |-> where[k]])
             ELSE QueryKwargs(FALSE, <<>>)

\* the loop body of app.py 279-295: the value is copied to cleaned_where
search_collection_keeps(value) ==
    IF value = NoneValue THEN FALSE
    ELSE IF value.kind = "dict" THEN value.items # 0
    ELSE IF value.kind \in {"str", "int", "float", "bool"}
    THEN ~(value.kind = "str" /\ value.s = <<>>)
    ELSE TRUE

\* search_collection: query_kwargs for request.where, app.py 269-301
search_collection_kwargs(where) ==
    IF where = NoWhere \/ DOMAIN where = {}
    THEN QueryKwargs(FALSE, <<>>)
    ELSE LET kept == {k \in DOMAIN where : search_collection_keeps(where[k])}
         IN  IF kept # {} THEN QueryKwargs(TRUE, [k \in kept |-> where[k]])
             ELSE QueryKwargs(FALSE, <<>>)

\* the loop body of client.py 178-192
search_keeps(value) ==
    IF value = NoneValue THEN FALSE
    ELSE IF value.kind = "dict" THEN value.items # 0
    ELSE IF value.kind \in {"str", "int", "float", "bool"}
    THEN ~(value.kind = "str" /\ value.s = <<>>)
    ELSE TRUE

\* IngestionClient.search: query_kwargs for where, client.py 168-197
search_kwargs(where) ==
    IF where = NoWhere \/ DOMAIN where = {}
    THEN QueryKwargs(FALSE, <<>>)
    ELSE LET kept == {k \in DOMAIN where : search_keeps(where[k])}
         IN  IF kept # {} THEN QueryKwargs(TRUE, [k \in kept |-> where[k]])
             ELSE QueryKwargs(FALSE, <<>>)

SearchProbe(where, rest_called, rest, client_called, client) ==
    [where |-> where, rest_called |-> rest_called, rest |-> rest,
     client_called |-> client_called, client |-> client]

InitSearch ==
    /\ env \in {World(<<>>, FALSE, m, "sound") : m \in PlainModels}
    /\ task = Task("search", <<>>, 0)
    /\ collection = <<>>
    /\ probe \in {SearchProbe(where, FALSE, QueryKwargs(FALSE, <<>>), FALSE,
                              QueryKwargs(FALSE, <<>>)) : where \in WhereInputs}
    /\ InitPipeline

\* POST /search with the filter
SearchCollection ==
    /\ task.op = "search"
    /\ ~probe.rest_called
    /\ probe' = [probe EXCEPT !.rest_called = TRUE,
                              !.rest = search_collection_kwargs(probe.where)]
    /\ UNCHANGED <<env, task, collection, pc, sweep, upsertLog, lastInsert, lastCall,
                   outcome, lastRun, faults>>

\* IngestionClient.search with the filter
ClientSearch ==
    /\ task.op = "search"
    /\ ~probe.client_called
    /\ probe' = [probe EXCEPT !.client_called = TRUE,
                              !.client = search_kwargs(probe.where)]
    /\ UNCHANGED <<env, task, collection, pc, sweep, upsertLog, lastInsert, lastCall,
                   outcome, lastRun, faults>>

NextSearch == SearchCollection \/ ClientSearch

SpecSearch == InitSearch /\ [][NextSearch]_vars

(***************************************************************************)
(* PDFParser.parse as a function of the pages of the document: every       *)
(* document of up to MaxPages pages, each blank, empty or split into up to  *)
(* three chunks                                                            *)
(***************************************************************************)

MaxPages == 3

EmptyPage == [text |-> <<>>, split |-> <<>>]

PageChoices ==
    {BlankPage, EmptyPage, Page(<<TxtAB>>), Page(<<TxtAB, TxtCD>>),
     Page(<<TxtCD, TxtAB, TxtEF>>)}

Documents == UNION {[1..n -> PageChoices] : n \in 0..MaxPages}

PdfProbe(pages, called, result) == [pages |-> pages, called |-> called, result |-> result]

InitPdf ==
    /\ env \in {World(<<>>, FALSE, m, "sound") : m \in PlainModels}
    /\ task = Task("PDFParser.parse", <<>>, 0)
    /\ collection = <<>>
    /\ probe \in {PdfProbe(pages, FALSE, <<>>) : pages \in Documents}
    /\ InitPipeline

\* pdf_parser.parse(file_path) on a file of these pages
PdfParseCall ==
    /\ task.op = "PDFParser.parse"
    /\ ~probe.called
    /\ probe' = PdfProbe(probe.pages, TRUE, PdfChunksFrom(NameAPdf, probe.pages, 0))
    /\ UNCHANGED <<env, task, collection, pc, sweep, upsertLog, lastInsert, lastCall,
                   outcome, lastRun, faults>>

NextPdf == PdfParseCall

SpecPdf == InitPdf /\ [][NextPdf]_vars

(***************************************************************************)
(* The two front ends that ingest single files: POST /upload of app.py and *)
(* the FileProcessingWorker thread of the desktop UI.  A behaviour fixes   *)
(* the request or the selection and repeats it.                            *)
(***************************************************************************)

MaxClock == 1

\* the random part of a temporary file name
TempTags == {<<"k">>, <<"q">>}

TempPath(name) == <<"t", "/">> \o name

\* os.path.join(self.uploads_dir, name)
UploadsPath(name) == <<"u", "/">> \o name

\* the worker builds its client with image_model=None (upload_dialog.py 30-34)
WorkerModels ==
    { [tokenizer |-> "none", max_seq_length |-> 512, enc_limit |-> 1000, image_model |-> "none"] }

\* the files on the disk of the front ends
UploadDir == <<NameAPdf, NameADocx, NameXPdf, NameCMp3, NamePPng, NameNXyz>>

\* the file names POST /upload is called with
PostNames == {NameAPdf, NameADocx, NameCMp3, NamePPng, NameNXyz}

\* the selections of the file dialog; the file of the last one is gone when the
\* worker copies it
Selections ==
    { <<FilePath(NameAPdf)>>,
      <<FilePath(NameXPdf), FilePath(NameAPdf)>>,
      <<FilePath(NameCMp3), FilePath(NameNXyz), FilePath(NameADocx)>>,
      <<FilePath(NamePPng), FilePath(NameAPdf), FilePath(NameCMp3)>>,
      <<MissingPath, FilePath(NameADocx)>> }

Signal(signal, filename, success) ==
    [signal |-> signal, filename |-> filename, success |-> success]

ProgressUpdate == Signal("progress_update", <<>>, FALSE)

FinishedAll == Signal("finished_all", <<>>, FALSE)

\* the state of the front end: INGESTION_AVAILABLE, the client
\* get_ingestion_client returns ("real", or "mock" when IngestionClient could not
\* be built), the clock in milliseconds, the position in the selection, the
\* signals emitted and the ids ingested by the run
FrontEnd(available, client, clock, i, signals, ids, faulted) ==
    [available |-> available, client |-> client, clock |-> clock, i |-> i,
     signals |-> signals, ids |-> ids, faulted |-> faulted]

\* the desktop UI before a worker runs on the selection, its collection new
InitWorker ==
    /\ env \in {World(UploadDir, FALSE, m, store) :
                  m \in WorkerModels, store \in {"sound", "flaky"}}
    /\ task \in {Task("FileProcessingWorker", selection, 0) : selection \in Selections}
    /\ probe \in {FrontEnd(available, client, 0, 0, <<>>, <<>>, FALSE) :
                    available \in BOOLEAN, client \in {"real", "mock"}}
    /\ collection = <<>>
    /\ InitPipeline

InitUpload ==
    \/ /\ env \in {World(UploadDir, FALSE, m, store) :
                     m \in PlainModels, store \in {"sound", "flaky"}}
       /\ task \in {Task("POST /upload", name, 0) : name \in PostNames}
                    \cup {Task("upload_file", FilePath(name), 0) : name \in PostNames}
       /\ probe = FrontEnd(TRUE, "real", 0, 0, <<>>, <<>>, FALSE)
       /\ collection \in StartCollections
       /\ InitPipeline
    \/ InitWorker

\* how one upload ended: process_file's result for the saved file, the exception
\* of upload_file ("none" when it returned), the collection and the upsert calls
Uploaded(r, error, coll, calls, store_ok, count_ok) ==
    [r |-> r, error |-> error, collection |-> coll, calls |-> calls,
     store_ok |-> store_ok, count_ok |-> count_ok]

\* process_file, the check for chunks, batch_insert and collection.count(), as
\* app.py 167-183 and client.py 78-91 do them, on the file saved at saved_path
UploadOutcomes(saved_path, r) ==
    IF r.ids = <<>>
    THEN {Uploaded(r, "no chunks", collection, <<>>, TRUE, TRUE)}
    ELSE {Uploaded(r, IF ok[2] THEN "none" ELSE "count",
                   batch_insert(collection, r.ids, r.embeddings, r.documents, r.metadatas,
                                ok[1]).collection,
                   batch_insert(collection, r.ids, r.embeddings, r.documents, r.metadatas,
                                ok[1]).calls,
                   ok[1], ok[2]) :
            ok \in {q \in Outcomes \X Outcomes : q[1] \/ q[2]}}

\* the state after an upload that ended as u
UploadEffects(saved_path, u) ==
    /\ collection' = u.collection
    /\ lastCall' = [fn |-> "process_file", path |-> saved_path, result |-> u.r]
    /\ lastInsert' = IF u.r.ids = <<>> THEN NoInsert
                     ELSE Inserted(u.r.ids, u.r.embeddings, u.r.documents, u.r.metadatas,
                                   collection, u.calls)
    /\ faults' = IF u.store_ok /\ u.count_ok THEN faults ELSE faults + 1

\* POST /upload, app.py 133-203: 400 for an unsupported extension or a file
\* without chunks, 500 for an exception of count(), else the reply
PostUpload ==
    /\ pc = "idle"
    /\ task.op = "POST /upload"
    /\ IF ~IsSupportedExt(Lower(PathSuffix(task.path)))
       THEN /\ outcome' = Ended("POST /upload", "HTTP400", <<>>, Count(collection), FALSE)
            /\ upsertLog' = <<>>
            /\ lastInsert' = NoInsert
            /\ lastCall' = NoCall
            /\ UNCHANGED <<collection, faults>>
       ELSE \E tag \in TempTags :
              \E u \in UploadOutcomes(
                         TempPath(TempName(tag, Lower(PathSuffix(task.path)))),
                         process_file(TempPath(TempName(tag, Lower(PathSuffix(task.path)))))) :
                /\ UploadEffects(TempPath(TempName(tag, Lower(PathSuffix(task.path)))), u)
                /\ upsertLog' = u.calls
                /\ outcome' = Ended("POST /upload",
                                    IF u.error = "no chunks" THEN "HTTP400"
                                    ELSE IF u.error = "count" THEN "HTTP500" ELSE "returned",
                                    u.r.ids, Count(u.collection), ~u.store_ok)
    /\ lastRun' = outcome
    /\ UNCHANGED <<env, task, pc, sweep, probe>>

\* the signals of a run without the ingestion pipeline, lines 79-84
UnavailableSignals(file_paths) ==
    [k \in 1..Len(file_paths) |-> Signal("file_processed", PathName(file_paths[k]), FALSE)]
      \o <<FinishedAll>>

\* FileProcessingWorker.run up to the loop, lines 77-92
WorkerStart ==
    /\ pc = "idle"
    /\ task.op = "FileProcessingWorker"
    /\ upsertLog' = <<>>
    /\ IF ~probe.available
       THEN /\ probe' = [probe EXCEPT !.signals = UnavailableSignals(task.path),
                                      !.ids = <<>>, !.i = 0, !.faulted = FALSE]
            /\ outcome' = Ended("FileProcessingWorker", "returned", <<>>, Count(collection),
                                FALSE)
            /\ lastRun' = outcome
            /\ pc' = "idle"
       ELSE /\ probe' = [probe EXCEPT !.signals = <<ProgressUpdate, ProgressUpdate>>,
                                      !.ids = <<>>, !.i = 0, !.faulted = FALSE]
            /\ pc' = "worker"
            /\ UNCHANGED <<outcome, lastRun>>
    /\ UNCHANGED <<env, task, collection, sweep, lastInsert, lastCall, faults>>

\* the file was copied and upload_file of the real client ended as u, lines
\* 103-112
WorkerUploaded(filename, dest_path, timestamp, u) ==
    /\ UploadEffects(dest_path, u)
    /\ upsertLog' = upsertLog \o u.calls
    /\ probe' = [probe EXCEPT
                   !.clock = timestamp,
                   !.i = @ + 1,
                   !.signals = @ \o <<ProgressUpdate,
                                      Signal("file_processed", filename, u.error = "none")>>,
                   !.ids = @ \o u.r.ids,
                   !.faulted = @ \/ ~u.store_ok \/ ~u.count_ok]

\* a loop that a failing file ends: no signal for it, none for the files after it
WorkerAborted(filename, timestamp, success) ==
    /\ probe' = [probe EXCEPT
                   !.clock = timestamp,
                   !.i = IF success THEN @ + 1 ELSE Len(task.path),
                   !.signals = @ \o (IF success
                                     THEN <<ProgressUpdate,
                                            Signal("file_processed", filename, TRUE)>>
                                     ELSE <<ProgressUpdate, ProgressUpdate>>)]
    /\ UNCHANGED <<collection, lastCall, lastInsert, faults, upsertLog>>

\* no pipeline call was made for the file: the copy raised, the client refused
\* the extension, or the client is the mock
WorkerSkipped(filename, timestamp, success) ==
    /\ probe' = [probe EXCEPT
                   !.clock = timestamp,
                   !.i = @ + 1,
                   !.signals = @ \o <<ProgressUpdate,
                                      Signal("file_processed", filename, success)>>]
    /\ UNCHANGED <<collection, lastCall, lastInsert, faults, upsertLog>>

\* one pass of the loop of lines 94-112 with the clock at timestamp
WorkerCopyAndUpload(file_path, filename, timestamp) ==
    IF \A k \in 1..Len(env.dir) : FilePath(env.dir[k]) # file_path
    THEN WorkerSkipped(filename, timestamp, FALSE)
    ELSE IF probe.client = "mock"
    THEN WorkerSkipped(filename, timestamp, TRUE)
    ELSE IF ~IsSupportedExt(Lower(PathSuffix(file_path)))
    THEN WorkerSkipped(filename, timestamp, FALSE)
    ELSE \E u \in UploadOutcomes(UploadsPath(CopyName(timestamp, filename)),
                                 process_file(UploadsPath(CopyName(timestamp, filename)))) :
           WorkerUploaded(filename, UploadsPath(CopyName(timestamp, filename)), timestamp, u)

\* the worker processes the next selected file
WorkerFile ==
    /\ pc = "worker"
    /\ probe.i < Len(task.path)
    /\ \E timestamp \in {t \in {probe.clock, probe.clock + 1} : t <= MaxClock} :
         WorkerCopyAndUpload(task.path[probe.i + 1], PathName(task.path[probe.i + 1]),
                             timestamp)
    /\ UNCHANGED <<env, task, pc, sweep, outcome, lastRun>>

\* line 117: self.finished_all.emit()
WorkerFinish ==
    /\ pc = "worker"
    /\ probe.i = Len(task.path)
    /\ probe' = [probe EXCEPT !.signals = @ \o <<FinishedAll>>]
    /\ outcome' = Ended("FileProcessingWorker", "returned", probe.ids, Count(collection),
                        probe.faulted)
    /\ lastRun' = outcome
    /\ pc' = "idle"
    /\ UNCHANGED <<env, task, collection, sweep, upsertLog, lastInsert, lastCall, faults>>

NextUpload == UploadFile \/ PostUpload \/ WorkerStart \/ WorkerFile \/ WorkerFinish

SpecUpload == InitUpload /\ [][NextUpload]_vars

\* The worker alone. run() is the body of a QThread: once started the thread
\* is scheduled until run returns, and every step of the loop is a synchronous
\* call that returns or raises, so a step that can be taken is taken.
NextWorker == WorkerStart \/ WorkerFile \/ WorkerFinish

\* The step of WorkerFile as a step of the thread: the loop passes to the next
\* file. A step of NextWorker is one of these exactly when it is a WorkerFile
\* step, and one is possible exactly when WorkerFile is, since every pass of the
\* loop ends, in the try or in its except. (The first disjunct is an instance of
\* the second: the successor that shows the step to be possible.)
WorkerAdvance ==
    /\ pc = "worker"
    /\ probe.i < Len(task.path)
    /\ \/ /\ probe' = [probe EXCEPT !.i = @ + 1]
          /\ UNCHANGED <<env, task, collection, pc, sweep, upsertLog, lastInsert, lastCall,
                         outcome, lastRun, faults>>
       \/ probe'.i = probe.i + 1

SpecWorker ==
    InitWorker /\ [][NextWorker]_vars /\ WF_vars(WorkerAdvance) /\ WF_vars(WorkerFinish)

(***************************************************************************)
(* Properties of the ingestion                                             *)
(***************************************************************************)

\* the ids a sequence of upsert calls carries, in call order
RECURSIVE CallIds(_)
CallIds(calls) == IF calls = <<>> THEN <<>> ELSE Head(calls).ids \o CallIds(Tail(calls))

\* PDF, DOCX and audio: the files whose chunks are texts
IsTextLike(file_path) == _get_file_type(file_path) \in {"pdf", "docx", "audio"}

\* whether the file can be opened and parsed
Readable(file_path) == FileData(PathName(file_path)).ok

\* what the parser of a readable PDF, DOCX or audio file yields
ParsedChunks(file_path) ==
    IF _get_file_type(file_path) = "pdf" THEN PDFParser_parse(file_path)
    ELSE IF _get_file_type(file_path) = "docx" THEN DOCXParser_parse(file_path)
    ELSE AudioParser_parse(file_path)

\* the ids the process_file calls of a sweep over files return, from file k on
RECURSIVE ExpectedIds(_, _)
ExpectedIds(files, k) ==
    IF k > Len(files) THEN <<>>
    ELSE process_file(files[k]).ids \o ExpectedIds(files, k + 1)

\* the files a sweep of the directory lists
ListedFiles == FilesToProcess(env.dir, env.case_insensitive)

\* an ingest_directory call that got past the existence check has ended
SweepEnded ==
    /\ pc = "idle"
    /\ outcome.op = "ingest_directory"
    /\ outcome.result # "ValueError"

\* C1: when the same operation (upload_file, which is process_file followed by
\* batch_insert, or ingest_directory over the same directory, or process_file
\* alone) has completed twice in succession on unchanged files and models, and no
\* upsert of the first run raised, then both runs produced the same id sequence
\* and the collection's count after the second run equals the count after the
\* first, whatever the collection held before the first run.
C1_IdempotentReingestion ==
    (/\ lastRun.op # "none"
     /\ outcome.op = lastRun.op
     /\ ~lastRun.faulted)
    => /\ outcome.ids = lastRun.ids
       /\ outcome.count = lastRun.count

\* two completed sweeps of a directory, each producing several chunks and
\* storing them, on a collection that held older entries
C1_Witness ==
    /\ pc = "idle"
    /\ lastRun.op = "ingest_directory"
    /\ outcome.op = "ingest_directory"
    /\ lastRun.result = "returned"
    /\ outcome.result = "returned"
    /\ ~lastRun.faulted
    /\ ~outcome.faulted
    /\ Len(outcome.ids) >= 2
    /\ outcome.ids = lastRun.ids
    /\ outcome.count = lastRun.count
    /\ outcome.count > Len(outcome.ids)

\* C2: for every chunk of a PDF, DOCX or audio file that process_file returns,
\* documents[k] is the k-th text the parser yielded, also when the truncator
\* shortened the text for the encoder and when the retry clipped it to 200
\* characters.
C2_DocumentFidelity ==
    (lastCall.fn = "process_file" /\ IsTextLike(lastCall.path))
    => \A k \in 1..Len(lastCall.result.documents) :
         lastCall.result.documents[k] = ParsedChunks(lastCall.path)[k].text

\* a returned chunk whose first encode raised and whose retry encoded the first
\* 200 characters, while its document is the longer parsed text
C2_Witness ==
    /\ lastCall.fn = "process_file"
    /\ IsTextLike(lastCall.path)
    /\ \E c \in 2..Len(lastCall.result.enc_calls) :
         /\ lastCall.result.enc_calls[c].ok
         /\ ~lastCall.result.enc_calls[c - 1].ok
         /\ lastCall.result.enc_calls[c - 1].chunk = lastCall.result.enc_calls[c].chunk
         /\ Len(lastCall.result.enc_calls[c].text) = max_chars
         /\ Len(lastCall.result.documents) > lastCall.result.enc_calls[c].chunk
         /\ Len(lastCall.result.documents[lastCall.result.enc_calls[c].chunk + 1]) > max_chars

\* both encoder calls for a chunk text raise
BothAttemptsRaise(text) ==
    /\ EncodeRaises(_truncate_text_for_encoding(text))
    /\ EncodeRaises(RetryText(text))

\* the texts of the chunks other than chunk j, in order
TextsWithout(chunks, j) ==
    [k \in 1..(Len(chunks) - 1) |-> IF k < j THEN chunks[k].text ELSE chunks[k + 1].text]

\* C3: when process_file has run on a PDF or DOCX with n chunks of which chunk j
\* fails on the first attempt and on the retry while every other chunk can be
\* encoded, the result holds exactly the other n-1 chunks, in order.
C3_PerChunkBestEffort ==
    (/\ lastCall.fn = "process_file"
     /\ _get_file_type(lastCall.path) \in {"pdf", "docx"}
     /\ Readable(lastCall.path))
    => \A j \in 1..Len(ParsedChunks(lastCall.path)) :
         (/\ BothAttemptsRaise(ParsedChunks(lastCall.path)[j].text)
          /\ \A k \in 1..Len(ParsedChunks(lastCall.path)) :
               k # j => ~BothAttemptsRaise(ParsedChunks(lastCall.path)[k].text))
         => /\ Len(lastCall.result.ids) = Len(ParsedChunks(lastCall.path)) - 1
            /\ lastCall.result.documents = TextsWithout(ParsedChunks(lastCall.path), j)

\* the encoder calls made for the chunk of index i, in call order
CallsFor(enc_calls, i) == SelectSeq(enc_calls, LAMBDA c : c.chunk = i)

\* C4 for one chunk: at most two calls; the first on the truncator's output; a
\* second only after the first raised, on the first 200 characters of the chunk
\* text, or on the whole text when it has at most 200 characters
RetriedOnce(mine, text) ==
    /\ Len(mine) <= 2
    /\ Len(mine) >= 1 => mine[1].text = _truncate_text_for_encoding(text)
    /\ Len(mine) = 1 => mine[1].ok
    /\ Len(mine) = 2 =>
         /\ ~mine[1].ok
         /\ mine[2].text = IF Len(text) > max_chars THEN SubSeq(text, 1, max_chars) ELSE text

\* C4: for each chunk of a PDF, DOCX or audio file the text encoder is called at
\* most twice: first on the truncator's output and, only if that call raised,
\* once more on the first 200 characters of the original chunk text (the whole
\* text if it has at most 200); a first call that succeeds is never followed by
\* a second one for that chunk, and no call is made for anything but a chunk.
C4_EncodeRetryOnce ==
    (lastCall.fn = "process_file" /\ IsTextLike(lastCall.path) /\ Readable(lastCall.path))
    => /\ \A c \in 1..Len(lastCall.result.enc_calls) :
            lastCall.result.enc_calls[c].chunk \in 0..(Len(ParsedChunks(lastCall.path)) - 1)
       /\ \A i \in 1..Len(ParsedChunks(lastCall.path)) :
            RetriedOnce(CallsFor(lastCall.result.enc_calls, i - 1),
                        ParsedChunks(lastCall.path)[i].text)

\* a file with a chunk encoded at the first call and a chunk of more than 200
\* characters whose first call raised and whose retry took its first 200
C4_Witness ==
    /\ lastCall.fn = "process_file"
    /\ IsTextLike(lastCall.path)
    /\ Readable(lastCall.path)
    /\ \E i, j \in 1..Len(ParsedChunks(lastCall.path)) :
         /\ Len(CallsFor(lastCall.result.enc_calls, i - 1)) = 1
         /\ Len(CallsFor(lastCall.result.enc_calls, j - 1)) = 2
         /\ CallsFor(lastCall.result.enc_calls, j - 1)[2].ok
         /\ Len(ParsedChunks(lastCall.path)[j].text) > max_chars
         /\ Len(CallsFor(lastCall.result.enc_calls, j - 1)[2].text) = max_chars

\* C5: process_file returns its four lists on every path; when parsing,
\* transcription, image loading or encoding raised inside it, the four lists are
\* empty; and a sweep of the directory that has ended has called process_file on
\* every listed file, those after a failing one included, and has passed every
\* chunk these calls returned to the store, in order.
C5_FileFailureIsolation ==
    /\ (lastCall.fn = "process_file" /\ lastCall.result.caught)
       => /\ lastCall.result.ids = <<>>
          /\ lastCall.result.embeddings = <<>>
          /\ lastCall.result.documents = <<>>
          /\ lastCall.result.metadatas = <<>>
    /\ (lastCall.fn = "process_file" /\ _get_file_type(lastCall.path) # "none"
          /\ ~Readable(lastCall.path))
       => lastCall.result.caught
    /\ SweepEnded
       => /\ outcome.ids = ExpectedIds(ListedFiles, 1)
          /\ CallIds(upsertLog) = outcome.ids

\* an ended sweep in which process_file failed on one file and a file listed
\* after it yielded chunks, all of which an upsert call carried
C5_Witness ==
    /\ SweepEnded
    /\ \E i, k \in 1..Len(ListedFiles) :
         /\ i < k
         /\ process_file(ListedFiles[i]).caught
         /\ process_file(ListedFiles[k]).ids # <<>>
         /\ \A n \in 1..Len(process_file(ListedFiles[k]).ids) :
              \E c \in 1..Len(upsertLog) :
                \E m \in 1..Len(upsertLog[c].ids) :
                  upsertLog[c].ids[m] = process_file(ListedFiles[k]).ids[n]

\* C6 as stated: none of process_file, ingest_directory and batch_insert raises
\* to its caller, whatever the input (a directory path that does not exist, a
\* store whose upsert or count fails): every completed call of process_file and
\* ingest_directory has returned.
C6_NothingRaises ==
    outcome.op \in {"process_file", "ingest_directory"} => outcome.result = "returned"

\* C6, amended: process_file always returns; an upsert that raises inside
\* batch_insert reaches no caller; ingest_directory raises ValueError exactly when
\* its directory does not exist, and otherwise either returns or lets the
\* exception of its final collection.count() through.
C6_RaisesOnlyForMissingDirectoryOrCount ==
    /\ outcome.op = "process_file" => outcome.result = "returned"
    /\ outcome.op = "ingest_directory"
       => /\ outcome.result \in {"returned", "ValueError", "CountError"}
          /\ outcome.result = "ValueError" <=> task.path # DirPath
    /\ (SweepEnded /\ outcome.result = "CountError")
       => CallIds(upsertLog) = ExpectedIds(ListedFiles, 1)
    /\ (lastInsert.fn = "batch_insert" /\ lastInsert.calls # <<>> /\ ~lastInsert.calls[1].ok)
       => \/ pc = "sweep"
          \/ outcome.result \in {"returned", "CountError"}

\* a sweep whose chunks were all flushed and whose final count() raised
C6_Witness ==
    /\ pc = "idle"
    /\ outcome.op = "ingest_directory"
    /\ outcome.result = "CountError"
    /\ upsertLog # <<>>
    /\ CallIds(upsertLog) = ExpectedIds(ListedFiles, 1)

\* every file of the directory yields exactly one chunk
OneChunkEach ==
    \A k \in 1..Len(env.dir) : Len(process_file(FilePath(env.dir[k])).ids) = 1

\* the sizes of n items flushed b at a time: ceil(n/b) batches, all of b items
\* but the last, which holds the remainder
ThresholdSizes(n, b) ==
    [c \in 1..((n + b - 1) \div b) |->
       IF c < (n + b - 1) \div b THEN b ELSE n - b * (((n + b - 1) \div b) - 1)]

\* the sizes of the upsert calls, in call order
CallSizes(calls) == [c \in 1..Len(calls) |-> Len(calls[c].ids)]

\* C7: when ingest_directory has ended on a directory of N files each producing
\* exactly 1 chunk, with batch_size B >= 1, it has made ceil(N/B) upsert calls,
\* each of exactly B items except the last, which carries the remainder.
C7_BatchFlushThreshold ==
    (SweepEnded /\ task.batch_size >= 1 /\ OneChunkEach)
    => CallSizes(upsertLog) = ThresholdSizes(Len(env.dir), task.batch_size)

\* C7 for the files ingest_directory lists instead of the files of the
\* directory: when every listed entry produces exactly 1 chunk, the upsert calls
\* are ceil(L/B) for L listed entries, of B items except the last
C7_ThresholdOverListedFiles ==
    (SweepEnded /\ task.batch_size >= 1 /\ OneChunkEach)
    => CallSizes(upsertLog) = ThresholdSizes(Len(ListedFiles), task.batch_size)

\* the last position of id in ids
LastIndexOf(ids, id) ==
    CHOOSE k \in 1..Len(ids) : ids[k] = id /\ \A m \in (k + 1)..Len(ids) : ids[m] # id

\* the collection holds exactly one entry of that id, with that document and
\* metadata
HoldsEntry(coll, id, document, metadata) ==
    /\ \E p \in 1..Len(coll) :
         coll[p].id = id /\ coll[p].document = document /\ coll[p].metadata = metadata
    /\ Cardinality({p \in 1..Len(coll) : coll[p].id = id}) = 1

\* C8: a batch_insert call with empty ids makes no call to the store and leaves
\* the collection as it was; any other makes exactly one upsert call, carrying
\* all of ids, embeddings, documents and metadatas; when that call returns, every
\* id of ids is in the collection once, with the document and metadata given for
\* it (those of its last position, should ids repeat it), whatever entry the
\* collection held under that id before, and the entries of other ids are as
\* they were; when that call raises, the collection is as it was.
C8_BatchInsertFrame ==
    lastInsert.fn = "batch_insert"
    => IF lastInsert.ids = <<>>
       THEN lastInsert.calls = <<>> /\ collection = lastInsert.before
       ELSE /\ Len(lastInsert.calls) = 1
            /\ lastInsert.calls[1].ids = lastInsert.ids
            /\ lastInsert.calls[1].embeddings = lastInsert.embeddings
            /\ lastInsert.calls[1].documents = lastInsert.documents
            /\ lastInsert.calls[1].metadatas = lastInsert.metadatas
            /\ lastInsert.calls[1].ok
               => /\ \A k \in 1..Len(lastInsert.ids) :
                       HoldsEntry(collection, lastInsert.ids[k],
                                  lastInsert.documents[LastIndexOf(lastInsert.ids,
                                                                   lastInsert.ids[k])],
                                  lastInsert.metadatas[LastIndexOf(lastInsert.ids,
                                                                   lastInsert.ids[k])])
                  /\ \A p \in 1..Len(lastInsert.before) :
                       (\A k \in 1..Len(lastInsert.ids) :
                          lastInsert.ids[k] # lastInsert.before[p].id)
                       => \E q \in 1..Len(collection) : collection[q] = lastInsert.before[p]
            /\ ~lastInsert.calls[1].ok => collection = lastInsert.before

\* a batch_insert of several items whose upsert returned and replaced an entry
\* that held another document under one of the ids
C8_Witness ==
    /\ lastInsert.fn = "batch_insert"
    /\ Len(lastInsert.ids) >= 2
    /\ Len(lastInsert.calls) = 1
    /\ lastInsert.calls[1].ok
    /\ \E k \in 1..Len(lastInsert.ids) :
         \E p \in 1..Len(lastInsert.before) :
           /\ lastInsert.before[p].id = lastInsert.ids[k]
           /\ lastInsert.before[p].document # lastInsert.documents[k]
           /\ HoldsEntry(collection, lastInsert.ids[k], lastInsert.documents[k],
                         lastInsert.metadatas[k])

\* C9: during a sweep every chunk process_file has returned is in exactly one
\* place, an upsert call already made or the accumulator, in the order produced,
\* whether a call raised or not: after an upsert raised, the accumulator was
\* reset, the failed batch is carried by no later call and the call is not
\* repeated; and a sweep in which an upsert raised still ends with every listed
\* file processed and every chunk passed to the store once, without the upsert's
\* exception reaching the caller.
C9_SwallowedStoreFailure ==
    /\ pc = "sweep" => CallIds(upsertLog) \o sweep.all_ids = sweep.produced
    /\ (SweepEnded /\ outcome.faulted)
       => /\ \E c \in 1..Len(upsertLog) : ~upsertLog[c].ok
          /\ CallIds(upsertLog) = ExpectedIds(ListedFiles, 1)
          /\ outcome.result \in {"returned", "CountError"}

\* an ended sweep whose first flush raised and that went on to flush the chunks
\* of the later files in a call that returned; the collection holds those and
\* none of the failed batch
C9_Witness ==
    /\ SweepEnded
    /\ outcome.result = "returned"
    /\ outcome.faulted
    /\ Len(upsertLog) >= 2
    /\ ~upsertLog[1].ok
    /\ upsertLog[2].ok
    /\ PositionOf(collection, upsertLog[2].ids[1]) # 0
    /\ PositionOf(collection, upsertLog[1].ids[1]) = 0

(***************************************************************************)
(* Properties of _generate_id                                              *)
(***************************************************************************)

\* C10: _generate_id(filename, kind, index) is filename + "_image" for kind
\* "image", whatever the index; stem + "_segment_" + index for "audio"; stem +
\* "_chunk_" + index for "text"; stem + "_" + kind + "_" + index for any other
\* kind, the stem being the filename without its last extension; it depends on
\* nothing else. ("report.pdf", "text", 3) gives "report_chunk_3", ("clip.mp3",
\* "audio", 0) gives "clip_segment_0", ("photo.png", "image") gives
\* "photo.png_image".
C10_GenerateIdFormat ==
    probe.called
    => /\ probe.id =
            IF probe.chunk_type = KindImage THEN probe.filename \o <<"_", "i", "m", "a", "g", "e">>
            ELSE IF probe.chunk_type = KindAudio
                 THEN PathStem(probe.filename) \o <<"_", "s", "e", "g", "m", "e", "n", "t", "_">> \o IndexStr(probe.index)
            ELSE IF probe.chunk_type = KindText
                 THEN PathStem(probe.filename) \o <<"_", "c", "h", "u", "n", "k", "_">> \o IndexStr(probe.index)
            ELSE PathStem(probe.filename) \o <<"_">> \o probe.chunk_type \o <<"_">>
                   \o IndexStr(probe.index)
       /\ (probe.filename = NameReportPdf /\ probe.chunk_type = KindText /\ probe.index = 3)
          => probe.id = <<"r", "e", "p", "o", "r", "t", "_", "c", "h", "u", "n", "k", "_", "3">>
       /\ (probe.filename = NameClipMp3 /\ probe.chunk_type = KindAudio /\ probe.index = 0)
          => probe.id = <<"c", "l", "i", "p", "_", "s", "e", "g", "m", "e", "n", "t", "_", "0">>
       /\ (probe.filename = NamePhotoPng /\ probe.chunk_type = KindImage)
          => probe.id = <<"p", "h", "o", "t", "o", ".", "p", "n", "g", "_", "i", "m", "a", "g", "e">>
       /\ (probe.filename = NameTarGz /\ probe.chunk_type = KindText /\ probe.index = 12)
          => probe.id = <<"a", ".", "t", "a", "r", "_", "c", "h", "u", "n", "k", "_", "1", "2">>

\* the three calls of the examples: the image one, made with the default index
C10_Witness ==
    /\ probe.called
    /\ probe.filename = NamePhotoPng
    /\ probe.chunk_type = KindImage
    /\ probe.index = None
    /\ probe.id = <<"p", "h", "o", "t", "o", ".", "p", "n", "g", "_", "i", "m", "a", "g", "e">>

(***************************************************************************)
(* Properties of ids, skipped files and the enumeration                    *)
(***************************************************************************)

\* the ids process_file returns for the directory entry of that name
IdsOf(name) == process_file(FilePath(name)).ids

\* the two id sequences have an id in common
ShareId(ids1, ids2) ==
    \E m \in 1..Len(ids1) : \E n \in 1..Len(ids2) : ids1[m] = ids2[n]

\* C11: chunks that come from two different source files never receive the same
\* id, two files that share a stem and differ in extension included: when a
\* sweep of the directory has ended, no id was returned for two different files
\* of it.
C11_IdsUniqueAcrossFiles ==
    SweepEnded
    => \A i, j \in 1..Len(env.dir) :
         env.dir[i] # env.dir[j] => ~ShareId(IdsOf(env.dir[i]), IdsOf(env.dir[j]))

\* the extension of the path, lowercased, is none of the supported ones
Unsupported(file_path) == ~IsSupportedExt(Lower(PathSuffix(file_path)))

\* an upsert call carries a chunk whose metadata names that source file
UpsertedFrom(calls, name) ==
    \E c \in 1..Len(calls) :
      \E m \in 1..Len(calls[c].metadatas) : calls[c].metadatas[m].source_file = name

\* C12: for a path whose lowercased extension is not a supported one,
\* process_file returns four empty lists, having called no encoder and no parser
\* (the files of unsupported extension cannot be read here, so a parser call
\* would have raised into the handler) and no store operation, and it does not
\* raise; a sweep of a directory that holds such a file lists no such file, ends
\* without an exception other than that of its final count(), and upserts no
\* chunk of that file.
C12_UnsupportedFileSkip ==
    /\ (lastCall.fn = "process_file" /\ Unsupported(lastCall.path))
       => /\ lastCall.result.ids = <<>>
          /\ lastCall.result.embeddings = <<>>
          /\ lastCall.result.documents = <<>>
          /\ lastCall.result.metadatas = <<>>
          /\ lastCall.result.enc_calls = <<>>
          /\ ~lastCall.result.caught
          /\ ~Readable(lastCall.path)
    /\ (outcome.op = "process_file" /\ Unsupported(task.path))
       => /\ outcome.result = "returned"
          /\ upsertLog = <<>>
    /\ SweepEnded
       => \A k \in 1..Len(env.dir) :
            Unsupported(FilePath(env.dir[k]))
            => /\ \A i \in 1..Len(ListedFiles) : ListedFiles[i] # FilePath(env.dir[k])
               /\ ~UpsertedFrom(upsertLog, env.dir[k])
               /\ outcome.result \in {"returned", "CountError"}
               /\ env.store = "sound" => outcome.result = "returned"

\* a sweep that returned, of a directory that holds a file of unsupported
\* extension beside files whose chunks were upserted
C12_Witness ==
    /\ SweepEnded
    /\ outcome.result = "returned"
    /\ upsertLog # <<>>
    /\ \E k \in 1..Len(env.dir) : env.dir[k] = NameNXyz
    /\ ~UpsertedFrom(upsertLog, NameNXyz)

\* a direct process_file call on a file of unsupported extension
C12_WitnessDirect ==
    /\ lastCall.fn = "process_file"
    /\ lastCall.path = FilePath(NameNXyz)
    /\ outcome.op = "process_file"
    /\ lastCall.result.ids = <<>>

(***************************************************************************)
(* Properties of the truncation                                            *)
(***************************************************************************)

\* the number of tokens the tokenizer of the model makes of the text
TokenCount(text) == Len(Tokenize(text, FALSE, 0))

\* C13: for every text and every behaviour of the tokenizer, the tokenizer that
\* expands on a decode-encode round trip, the tokenizer that raises and the
\* model without a tokenizer included, tokenizing the text that
\* _truncate_text_for_encoding returns yields at most max_seq_length tokens.
C13_TruncationBound ==
    probe.called => TokenCount(probe.result) <= env.max_seq_length

\* C13 on the character fallback alone: the model exposes no tokenizer
C13_CharFallbackBound ==
    (probe.called /\ env.tokenizer = "none") => TokenCount(probe.result) <= env.max_seq_length

\* C13 for a tokenizer whose decode-encode round trip is exact
C13_ExactTokenizerBound ==
    (probe.called /\ env.tokenizer = "ok") => TokenCount(probe.result) <= env.max_seq_length

\* the tokenizer path of the input was not run to its end
NotCompleted(text) == Strip(text) = <<>> \/ ~TokenizerPathCompletes

\* C14: _truncate_text_for_encoding returns a string for every non-empty text
\* whatever the tokenizer does (absent, raising at the tokenization, at the
\* decoding or at the verification, returning a dict without input_ids), and
\* when the tokenizer path was not run to its end the text returned is the whole
\* input or its first floor((max_seq_length - 5) * 2.5) characters.
C14_TruncationNeverRaises ==
    (probe.called /\ probe.text # <<>>)
    => /\ probe.result \in Seq(TextAlphabet \cup {ReplacementChar})
       /\ NotCompleted(probe.text)
          => \/ probe.result = probe.text
             \/ probe.result = Prefix(probe.text, ((env.max_seq_length - 5) * 5) \div 2)

\* a tokenizer that raised at the verification, on a text longer than the
\* character limit: the first characters of the text were returned
C14_Witness ==
    /\ probe.called
    /\ env.tokenizer = "raises_verify"
    /\ Len(probe.text) > ((env.max_seq_length - 5) * 5) \div 2
    /\ probe.result # probe.text
    /\ probe.result # <<>>

(***************************************************************************)
(* Properties of the audio windows                                         *)
(***************************************************************************)

\* the ways to cut n segments into consecutive non-empty windows: the set of the
\* positions at which a window ends
CutSets(n) == {c \in SUBSET (1..n) : n > 0 => n \in c}

\* the position at which the k-th window of the cut ends
LastOf(c, k) == CHOOSE j \in c : Cardinality({i \in c : i <= j}) = k

\* the position at which the k-th window of the cut starts
FirstOf(c, k) == IF k = 1 THEN 1 ELSE LastOf(c, k - 1) + 1

\* the stripped texts of the segments first..last, joined by one space
JoinedText(segments, first, last) ==
    JoinSpace([j \in 1..(last - first + 1) |-> Strip(segments[first + j - 1].text)])

\* the windows are the windows of the cut: as many, and each with the text and
\* the bounds of its segments
WindowsOfCut(windows, segments, c) ==
    /\ Len(windows) = Cardinality(c)
    /\ \A k \in 1..Len(windows) :
         /\ windows[k].text = JoinedText(segments, FirstOf(c, k), LastOf(c, k))
         /\ windows[k].metadata.start_seconds = segments[FirstOf(c, k)].start
         /\ windows[k].metadata.end_seconds = segments[LastOf(c, k)].end

\* C15: _chunk_by_time cuts the segments into consecutive non-empty windows,
\* every segment in exactly one window and in order: the text of each window is
\* the stripped texts of its segments joined by a space, a last window shorter
\* than chunk_duration is emitted too, and there are no windows only when there
\* are no segments.
C15_WindowsPartitionSegments ==
    probe.called
    => /\ \E c \in CutSets(Len(probe.segments)) :
            /\ Len(probe.result) = Cardinality(c)
            /\ \A k \in 1..Len(probe.result) :
                 probe.result[k].text
                   = JoinedText(probe.segments, FirstOf(c, k), LastOf(c, k))
       /\ (probe.result = <<>>) <=> (probe.segments = <<>>)

\* several segments cut into more than one window, the last one shorter than
\* chunk_duration
C15_Witness ==
    /\ probe.called
    /\ Len(probe.segments) = MaxSegs
    /\ Len(probe.result) = 2
    /\ probe.result[2].metadata.end_seconds - probe.result[2].metadata.start_seconds
         < probe.chunk_duration

\* the span from the start of segment first to the end of segment j
Span(segments, first, j) == segments[j].end - segments[first].start

\* C16: a window is closed right after the first segment at which the span from
\* the start of the window's first segment reaches chunk_duration: every window
\* but possibly the last spans at least chunk_duration, no window reaches
\* chunk_duration before its last segment, start_seconds and end_seconds are the
\* start of the first and the end of the last segment of the window, and the
\* segments (0,4,a), (4,9,b), (9,11,c) with chunk_duration 10 make the one window
\* 0..11 with the text "a b c".
C16_WindowClosingRule ==
    probe.called
    => /\ \E c \in CutSets(Len(probe.segments)) :
            /\ WindowsOfCut(probe.result, probe.segments, c)
            /\ \A k \in 1..Len(probe.result) :
                 /\ k < Len(probe.result)
                    => Span(probe.segments, FirstOf(c, k), LastOf(c, k))
                         >= probe.chunk_duration
                 /\ \A j \in FirstOf(c, k)..(LastOf(c, k) - 1) :
                      Span(probe.segments, FirstOf(c, k), j) < probe.chunk_duration
                 /\ Span(probe.segments, FirstOf(c, k), LastOf(c, k)) < probe.chunk_duration
                    => k = Len(probe.result)
       /\ (probe.segments = ExampleSegments /\ probe.chunk_duration = 10)
          => /\ Len(probe.result) = 1
             /\ probe.result[1].text = <<"a", " ", "b", " ", "c">>
             /\ probe.result[1].metadata.start_seconds = 0
             /\ probe.result[1].metadata.end_seconds = 11

\* a window of two segments closed at a span of exactly chunk_duration, followed
\* by another window
C16_Witness ==
    /\ probe.called
    /\ Len(probe.result) = 2
    /\ Len(probe.segments) = 3
    /\ probe.result[1].metadata.end_seconds - probe.result[1].metadata.start_seconds
         = probe.chunk_duration
    /\ probe.result[1].metadata.end_seconds = probe.segments[2].end
    /\ probe.segments[1].end < probe.segments[2].end

\* the segments of the example, chunked with chunk_duration 10
C16_WitnessExample ==
    /\ probe.called
    /\ probe.segments = ExampleSegments
    /\ probe.chunk_duration = 10
    /\ Len(probe.result) = 1

(***************************************************************************)
(* Properties of the search filter                                         *)
(***************************************************************************)

\* the values the cleaning removes: None, the empty dict and the empty string
Removed == {NoneValue, DictValue(0), StrValue(<<>>)}

\* the keys of the filter whose value is not removed
KeptKeys(where) ==
    IF where = NoWhere THEN {} ELSE {k \in DOMAIN where : where[k] \notin Removed}

\* the query the claim expects for the filter
ExpectedKwargs(where) ==
    IF KeptKeys(where) = {} THEN QueryKwargs(FALSE, <<>>)
    ELSE QueryKwargs(TRUE, [k \in KeptKeys(where) |-> where[k]])

ExampleWhere ==
    [k \in WhereKeys |-> IF k = "type" THEN DictValue(0)
                         ELSE IF k = "source" THEN NoneValue ELSE IntValue(2)]

\* C17: the where filter sent to the store is the filter given without exactly
\* the keys whose value is None, an empty dict or an empty string, 0 and False
\* being kept; when no key is left, or the filter is empty or absent, the query
\* is sent without where; the REST handler and the client send the same for
\* every filter, {"page": 2} for {"type": {}, "source": None, "page": 2}.
C17_FilterSanitization ==
    /\ probe.rest_called => probe.rest = ExpectedKwargs(probe.where)
    /\ probe.client_called => probe.client = ExpectedKwargs(probe.where)
    /\ (probe.rest_called /\ probe.client_called) => probe.rest = probe.client
    /\ (probe.rest_called /\ probe.where = ExampleWhere)
       => probe.rest = QueryKwargs(TRUE, [k \in {"page"} |-> IntValue(2)])

\* both searches were made with a filter of which one key was removed and the
\* keys of value 0 and False were kept
C17_Witness ==
    /\ probe.rest_called
    /\ probe.client_called
    /\ probe.where # NoWhere
    /\ DOMAIN probe.where = WhereKeys
    /\ probe.where["type"] = StrValue(<<>>)
    /\ probe.where["source"] = BoolValue(FALSE)
    /\ probe.where["page"] = IntValue(0)
    /\ probe.rest.has_where
    /\ DOMAIN probe.rest.where = {"source", "page"}
    /\ probe.client = probe.rest

\* both searches were made with the filter of the example
C17_WitnessExample ==
    /\ probe.rest_called
    /\ probe.client_called
    /\ probe.where = ExampleWhere
    /\ probe.client = QueryKwargs(TRUE, [k \in {"page"} |-> IntValue(2)])

(***************************************************************************)
(* Properties of the four lists and of the metadata                        *)
(***************************************************************************)

\* id, embedding, document and metadata are those of one chunk of the file, a
\* chunk for which an encoder call returned
IsChunkOf(file_path, id, embedding, document, metadata) ==
    /\ Readable(file_path)
    /\ IF _get_file_type(file_path) = "image"
       THEN /\ ~ImageEncodeRaises
            /\ id = _generate_id(PathName(file_path), KindImage, None)
            /\ document = <<"N", "/", "A">>
            /\ metadata = ImageParser_parse(file_path).metadata
            /\ embedding = ImageEncode(ImageParser_parse(file_path).image)
       ELSE /\ IsTextLike(file_path)
            /\ \E j \in 1..Len(ParsedChunks(file_path)) :
                 /\ id = _generate_id(PathName(file_path),
                                      IF _get_file_type(file_path) = "audio"
                                      THEN KindAudio ELSE KindText, j - 1)
                 /\ document = ParsedChunks(file_path)[j].text
                 /\ metadata = ParsedChunks(file_path)[j].metadata
                 /\ ~BothAttemptsRaise(document)
                 /\ embedding \in {Encode(_truncate_text_for_encoding(document)),
                                   Encode(RetryText(document))}

\* the four lists have one length
SameLength(r) ==
    /\ Len(r.embeddings) = Len(r.ids)
    /\ Len(r.documents) = Len(r.ids)
    /\ Len(r.metadatas) = Len(r.ids)

\* C18: whenever process_file has returned and in every upsert call the lists of
\* ids, embeddings, documents and metadatas have one length and what stands at a
\* position of the four is the id, the embedding, the document and the metadata
\* of one chunk; a chunk for which no embedding could be computed stands in none
\* of them.
C18_ParallelLists ==
    /\ lastCall.fn = "process_file"
       => /\ SameLength(lastCall.result)
          /\ \A k \in 1..Len(lastCall.result.ids) :
               IsChunkOf(lastCall.path, lastCall.result.ids[k],
                         lastCall.result.embeddings[k], lastCall.result.documents[k],
                         lastCall.result.metadatas[k])
    /\ \A c \in 1..Len(upsertLog) :
         /\ SameLength(upsertLog[c])
         /\ \A k \in 1..Len(upsertLog[c].ids) :
              \E i \in 1..Len(env.dir) :
                IsChunkOf(FilePath(env.dir[i]), upsertLog[c].ids[k],
                          upsertLog[c].embeddings[k], upsertLog[c].documents[k],
                          upsertLog[c].metadatas[k])

\* an upsert call of a sweep with chunks of two files, after a process_file call
\* that returned chunks
C18_Witness ==
    /\ pc = "sweep"
    /\ lastCall.fn = "process_file"
    /\ Len(lastCall.result.ids) >= 2
    /\ \E c \in 1..Len(upsertLog) :
         \E k, n \in 1..Len(upsertLog[c].ids) :
           upsertLog[c].metadatas[k].source_file # upsertLog[c].metadatas[n].source_file

\* the metadata type of the chunks of a file of that file type
CategoryOf(file_type) ==
    IF file_type \in {"pdf", "docx"} THEN "text" ELSE file_type

\* C19: every metadata that process_file returns has source_file equal to the
\* base name of the path processed, and a type among text, audio and image that
\* is the category of the file: text for PDF and DOCX, audio for audio files,
\* image for images.
C19_MetadataSourceAndType ==
    lastCall.fn = "process_file"
    => \A k \in 1..Len(lastCall.result.metadatas) :
         /\ lastCall.result.metadatas[k].source_file = PathName(lastCall.path)
         /\ lastCall.result.metadatas[k].type \in {"text", "audio", "image"}
         /\ lastCall.result.metadatas[k].type = CategoryOf(_get_file_type(lastCall.path))

\* process_file returned the chunks of an audio file
C19_Witness ==
    /\ lastCall.fn = "process_file"
    /\ _get_file_type(lastCall.path) = "audio"
    /\ lastCall.result.metadatas # <<>>
    /\ lastCall.result.metadatas[1].type = "audio"

\* process_file returned the chunk of an image
C19_WitnessImage ==
    /\ lastCall.fn = "process_file"
    /\ _get_file_type(lastCall.path) = "image"
    /\ lastCall.result.metadatas # <<>>

\* process_file returned the chunks of a PDF
C19_WitnessPdf ==
    /\ lastCall.fn = "process_file"
    /\ _get_file_type(lastCall.path) = "pdf"
    /\ Len(lastCall.result.metadatas) >= 2

(***************************************************************************)
(* Properties of the enumeration of a directory                            *)
(***************************************************************************)

\* how often the sweep calls process_file on the path
TimesListed(file_path) ==
    Cardinality({i \in 1..Len(ListedFiles) : ListedFiles[i] = file_path})

\* C20: a sweep calls process_file exactly once for every file of the directory
\* whose extension is, compared without regard to case, a supported one (a.pdf,
\* b.PDF and c.Pdf once each), and for no other file.
C20_EachSupportedFileOnce ==
    SweepEnded
    => /\ \A i \in 1..Len(env.dir) :
            TimesListed(FilePath(env.dir[i]))
              = IF Unsupported(FilePath(env.dir[i])) THEN 0 ELSE 1
       /\ \A k \in 1..Len(ListedFiles) :
            \E i \in 1..Len(env.dir) : ListedFiles[k] = FilePath(env.dir[i])

\* C20 where the file system matches names with regard to case
C20_OnceWhereCaseMatters ==
    (SweepEnded /\ ~env.case_insensitive)
    => \A i \in 1..Len(env.dir) :
         TimesListed(FilePath(env.dir[i]))
           = IF Unsupported(FilePath(env.dir[i])) THEN 0 ELSE 1

\* C20 for the names whose extension is all lower case or all upper case, where
\* the file system matches names with regard to case
C20_OnceForOneCaseNames ==
    (SweepEnded /\ ~env.case_insensitive)
    => \A i \in 1..Len(env.dir) :
         PathSuffix(FilePath(env.dir[i]))
             \in {Lower(PathSuffix(FilePath(env.dir[i]))),
                  Upper(PathSuffix(FilePath(env.dir[i])))}
         => TimesListed(FilePath(env.dir[i]))
              = IF Unsupported(FilePath(env.dir[i])) THEN 0 ELSE 1

(***************************************************************************)
(* Properties of the chunks of one file                                    *)
(***************************************************************************)

\* the chunk type process_file passes to _generate_id for the file
KindOf(file_path) ==
    IF _get_file_type(file_path) = "audio" THEN KindAudio
    ELSE IF _get_file_type(file_path) = "image" THEN KindImage ELSE KindText

\* C21: the ids one process_file call returns are pairwise distinct; for a PDF of
\* several pages, whose chunk_index starts again at 0 on every page, the index in
\* the id is the position of the chunk in the chunk sequence of the whole file.
C21_IdsDistinctWithinFile ==
    lastCall.fn = "process_file"
    => /\ \A k, n \in 1..Len(lastCall.result.ids) :
            k # n => lastCall.result.ids[k] # lastCall.result.ids[n]
       /\ IsTextLike(lastCall.path)
          => \A k \in 1..Len(lastCall.result.ids) :
               lastCall.result.ids[k]
                 = _generate_id(PathName(lastCall.path), KindOf(lastCall.path), k - 1)

\* the chunks of a PDF whose third chunk is the first of a later page
C21_Witness ==
    /\ lastCall.fn = "process_file"
    /\ _get_file_type(lastCall.path) = "pdf"
    /\ Len(lastCall.result.ids) = 3
    /\ lastCall.result.metadatas[1].chunk_index = 0
    /\ lastCall.result.metadatas[3].chunk_index = 0
    /\ lastCall.result.metadatas[3].page = 3

\* C22: for an audio file whose transcript makes n windows process_file returns
\* all n chunks in the order of the windows or four empty lists, never some of
\* the chunks, also when both encoder calls for a later window raise after
\* earlier windows were encoded and appended.
C22_AudioAllOrNothing ==
    (lastCall.fn = "process_file" /\ _get_file_type(lastCall.path) = "audio")
    => \/ /\ lastCall.result.ids = <<>>
          /\ lastCall.result.embeddings = <<>>
          /\ lastCall.result.documents = <<>>
          /\ lastCall.result.metadatas = <<>>
       \/ /\ Readable(lastCall.path)
          /\ Len(lastCall.result.ids) = Len(AudioParser_parse(lastCall.path))
          /\ \A k \in 1..Len(lastCall.result.ids) :
               /\ lastCall.result.documents[k] = AudioParser_parse(lastCall.path)[k].text
               /\ lastCall.result.metadatas[k] = AudioParser_parse(lastCall.path)[k].metadata

\* the first window of an audio file was encoded, both encoder calls for the
\* second window raised, and four empty lists were returned
C22_Witness ==
    /\ lastCall.fn = "process_file"
    /\ _get_file_type(lastCall.path) = "audio"
    /\ lastCall.result.caught
    /\ lastCall.result.ids = <<>>
    /\ Len(lastCall.result.enc_calls) = 3
    /\ lastCall.result.enc_calls[1].ok
    /\ lastCall.result.enc_calls[1].chunk = 0
    /\ ~lastCall.result.enc_calls[3].ok
    /\ lastCall.result.enc_calls[3].chunk = 1

\* all the windows of an audio file were returned
C22_WitnessAll ==
    /\ lastCall.fn = "process_file"
    /\ _get_file_type(lastCall.path) = "audio"
    /\ Len(lastCall.result.ids) = 2

\* the chunks of the result whose metadata names page p
ChunksOfPage(result, p) == SelectSeq(result, LAMBDA c : c.metadata.page = p)

\* C23: PDFParser.parse emits no chunk for a page whose text is empty after
\* trimming; for every other page it emits the chunks of the page, the pages in
\* their order, with page the 1-based number of the page (the skipped pages
\* counted) and chunk_index 0, 1, 2, ... from 0 on every page.
C23_PdfPagesAndChunkIndex ==
    probe.called
    => /\ \A p \in 1..Len(probe.pages) :
            IF Strip(probe.pages[p].text) = <<>>
            THEN ChunksOfPage(probe.result, p) = <<>>
            ELSE /\ Len(ChunksOfPage(probe.result, p)) = Len(probe.pages[p].split)
                 /\ \A i \in 1..Len(probe.pages[p].split) :
                      /\ ChunksOfPage(probe.result, p)[i].text = probe.pages[p].split[i]
                      /\ ChunksOfPage(probe.result, p)[i].metadata.chunk_index = i - 1
       /\ \A k \in 1..Len(probe.result) : probe.result[k].metadata.page \in 1..Len(probe.pages)
       /\ \A k \in 1..(Len(probe.result) - 1) :
            probe.result[k].metadata.page <= probe.result[k + 1].metadata.page

\* a page of two chunks, a blank page and a page with a chunk: three chunks, the
\* last one of page 3 with chunk_index 0
C23_Witness ==
    /\ probe.called
    /\ Len(probe.pages) = 3
    /\ Len(probe.pages[1].split) = 2
    /\ probe.pages[2] = BlankPage
    /\ Len(probe.result) >= 3
    /\ probe.result[2].metadata.chunk_index = 1
    /\ probe.result[3].metadata.page = 3
    /\ probe.result[3].metadata.chunk_index = 0

\* C24: process_file on an image file returns one chunk, its id the whole file
\* name followed by _image, its document the placeholder N/A, its embedding that
\* of the image encoder, with no call of the text truncation or the text
\* encoder; or, when the image cannot be loaded or encoded (a pipeline built with
\* image_model=None included), four empty lists.
C24_ImageOneChunkOrNothing ==
    (lastCall.fn = "process_file" /\ _get_file_type(lastCall.path) = "image")
    => /\ lastCall.result.enc_calls = <<>>
       /\ IF Readable(lastCall.path) /\ ~ImageEncodeRaises
          THEN /\ lastCall.result.ids = <<PathName(lastCall.path) \o <<"_", "i", "m", "a", "g", "e">>>>
               /\ lastCall.result.documents = <<<<"N", "/", "A">>>>
               /\ lastCall.result.embeddings
                    = <<ImageEncode(ImageParser_parse(lastCall.path).image)>>
               /\ Len(lastCall.result.metadatas) = 1
          ELSE /\ lastCall.result.ids = <<>>
               /\ lastCall.result.embeddings = <<>>
               /\ lastCall.result.documents = <<>>
               /\ lastCall.result.metadatas = <<>>

\* an image that can be loaded, in a pipeline built with image_model=None: four
\* empty lists
C24_Witness ==
    /\ lastCall.fn = "process_file"
    /\ lastCall.path = FilePath(NamePPng)
    /\ env.image_model = "none"
    /\ lastCall.result.ids = <<>>
    /\ lastCall.result.caught

\* the one chunk of an image
C24_WitnessChunk ==
    /\ lastCall.fn = "process_file"
    /\ lastCall.path = FilePath(NamePPng)
    /\ Len(lastCall.result.ids) = 1
    /\ lastCall.result.documents[1] = <<"N", "/", "A">>

(***************************************************************************)
(* Properties of the metadata passed to the store                          *)
(***************************************************************************)

ScalarTypes == {"str", "int", "float", "bool"}

\* every value of the metadata is a string, a number or a boolean
AllScalar(metadata) ==
    \A f \in DOMAIN MetadataTypes(metadata) : MetadataTypes(metadata)[f] \in ScalarTypes

\* C25: every value of every metadata passed to the store is a scalar (string,
\* number or boolean), for text, audio and image chunks; the metadata of an image
\* chunk tells the original format of the image, its pixel dimensions and its
\* colour mode as such values.
C25_ScalarMetadata ==
    \A c \in 1..Len(upsertLog) :
      \A k \in 1..Len(upsertLog[c].metadatas) :
        /\ AllScalar(upsertLog[c].metadatas[k])
        /\ upsertLog[c].metadatas[k].type = "image"
           => /\ upsertLog[c].metadatas[k].format
                   = FileData(upsertLog[c].metadatas[k].source_file).format
              /\ upsertLog[c].metadatas[k].mode
                   = FileData(upsertLog[c].metadatas[k].source_file).mode

\* C25 for the chunks of PDF, DOCX and audio files
C25_TextAndAudioScalar ==
    \A c \in 1..Len(upsertLog) :
      \A k \in 1..Len(upsertLog[c].metadatas) :
        upsertLog[c].metadatas[k].type # "image" => AllScalar(upsertLog[c].metadatas[k])

(***************************************************************************)
(* Properties of the front ends                                            *)
(***************************************************************************)

\* the same request or selection was run twice in succession and no call of the
\* store raised in either run
RanTwice ==
    /\ pc = "idle"
    /\ outcome.op \in {"POST /upload", "FileProcessingWorker"}
    /\ lastRun.op = outcome.op
    /\ outcome.result = "returned"
    /\ lastRun.result = "returned"
    /\ ~outcome.faulted
    /\ ~lastRun.faulted

\* C26: the ids and the source_file stored for a file ingested by POST /upload
\* or by the FileProcessingWorker depend on the name of the file, its type and
\* the position of the chunk only: uploading the same file twice produces the
\* same ids, and the collection counts after the second upload what it counted
\* after the first.
C26_UploadIdsFromOriginalName ==
    /\ RanTwice => /\ outcome.ids = lastRun.ids
                   /\ outcome.count = lastRun.count
    /\ (outcome.op = "POST /upload" /\ pc = "idle")
       => \A c \in 1..Len(upsertLog) :
            \A k \in 1..Len(upsertLog[c].metadatas) :
              upsertLog[c].metadatas[k].source_file = task.path
    /\ (outcome.op = "FileProcessingWorker" /\ pc = "idle")
       => \A c \in 1..Len(upsertLog) :
            \A k \in 1..Len(upsertLog[c].metadatas) :
              \E i \in 1..Len(task.path) :
                upsertLog[c].metadatas[k].source_file = PathName(task.path[i])

(***************************************************************************)
(* Properties of the batches of ingest_directory                           *)
(***************************************************************************)

\* the number of chunks the process_file calls on the first m files return
ProducedBy(files, m) == Len(ExpectedIds(SubSeq(files, 1, m), 1))

\* the positions in the chunk sequence of a sweep at which the chunks of one
\* file end
FileEnds(files) == {ProducedBy(files, m) : m \in 0..Len(files)}

\* the positions in the chunk sequence at which the upsert calls end
CallEnds(calls) == {Len(CallIds(SubSeq(calls, 1, c))) : c \in 0..Len(calls)}

\* C27: ingest_directory checks for a flush only after all chunks of a file
\* were appended: no upsert call ends inside the chunks of a file, every upsert
\* call but the final one carries at least batch_size items, the final one
\* carries at least 1 item, and no upsert call has an empty id list.
C27_FlushAfterWholeFile ==
    /\ (pc = "sweep" \/ SweepEnded)
       => \A c \in 1..Len(upsertLog) :
            /\ Len(upsertLog[c].ids) >= 1
            /\ (c < Len(upsertLog) \/ pc = "sweep")
               => Len(upsertLog[c].ids) >= task.batch_size
    /\ SweepEnded => CallEnds(upsertLog) \subseteq FileEnds(ListedFiles)

\* a sweep has ended after several upsert calls, one of them of more than
\* batch_size items because the file that filled it has several chunks
C27_Witness ==
    /\ SweepEnded
    /\ task.batch_size >= 2
    /\ Len(upsertLog) >= 2
    /\ \E c \in 1..(Len(upsertLog) - 1) : Len(upsertLog[c].ids) > task.batch_size
    /\ \E m \in 1..Len(ListedFiles) : Len(process_file(ListedFiles[m]).ids) >= 2

\* a sweep has ended with a remainder call of fewer than batch_size items
C27_WitnessRemainder ==
    /\ SweepEnded
    /\ Len(upsertLog) >= 2
    /\ Len(upsertLog[Len(upsertLog)].ids) < task.batch_size

\* one field ("ids", "embeddings", "documents" or "metadatas") of what the
\* process_file calls on the files from the k-th on return, in the order produced
RECURSIVE ExpectedField(_, _, _)
ExpectedField(files, k, field) ==
    IF k > Len(files) THEN <<>>
    ELSE process_file(files[k])[field] \o ExpectedField(files, k + 1, field)

\* that field of the items the upsert calls were given, in call order
RECURSIVE CallField(_, _)
CallField(calls, field) ==
    IF calls = <<>> THEN <<>> ELSE Head(calls)[field] \o CallField(Tail(calls), field)

\* C28: chunks are conserved by ingest_directory: when no upsert call fails,
\* the items of the upsert calls, in call order, are the chunks the process_file
\* calls of the sweep returned, in the order they were produced, each once and
\* nothing else; during the sweep the chunks produced so far are those upserted
\* followed by those in the accumulator, and at the return nothing is left in
\* the accumulator.
C28_ChunkConservation ==
    /\ (pc = "sweep" /\ ~sweep.faulted)
       => CallIds(upsertLog) \o sweep.all_ids = sweep.produced
    /\ (SweepEnded /\ ~outcome.faulted)
       => /\ \A field \in {"ids", "embeddings", "documents", "metadatas"} :
               CallField(upsertLog, field) = ExpectedField(ListedFiles, 1, field)
          /\ CallIds(upsertLog) = outcome.ids
          /\ sweep.all_ids = <<>>
          /\ \A k \in 1..Len(outcome.ids) : PositionOf(collection, outcome.ids[k]) > 0

\* a sweep without a failing call has ended after a flush inside the loop and a
\* remainder flush
C28_Witness ==
    /\ SweepEnded
    /\ ~outcome.faulted
    /\ outcome.result = "returned"
    /\ Len(upsertLog) >= 2
    /\ Len(outcome.ids) >= 3
    /\ task.batch_size >= 2
    /\ Len(upsertLog[Len(upsertLog)].ids) < task.batch_size

\* a sweep without a failing call has ended over files of which one produced
\* several chunks and one none
C28_WitnessFiles ==
    /\ SweepEnded
    /\ ~outcome.faulted
    /\ upsertLog # <<>>
    /\ \E m \in 1..Len(ListedFiles) : process_file(ListedFiles[m]).ids = <<>>
    /\ \E m \in 1..Len(ListedFiles) : Len(process_file(ListedFiles[m]).ids) >= 2

\* an upload through the client or through POST /upload has ended
UploadEnded ==
    /\ pc = "idle"
    /\ outcome.op \in {"upload_file", "POST /upload"}

\* C29: when IngestionClient.upload_file or POST /upload reports success with
\* chunks_processed = n, n is at least 1 and all n ids of the file are in the
\* collection; when process_file yields no chunk the upload reports an error
\* (RuntimeError, HTTP 400) and no upsert is attempted.
C29_SuccessMeansStored ==
    UploadEnded
    => /\ outcome.result = "returned"
          => /\ Len(outcome.ids) >= 1
             /\ \A k \in 1..Len(outcome.ids) : PositionOf(collection, outcome.ids[k]) > 0
       /\ (lastCall.fn = "process_file" /\ lastCall.result.ids = <<>>)
          => /\ outcome.result \in {"RuntimeError", "HTTP400"}
             /\ upsertLog = <<>>

\* C29 without the presence of the ids: a reported success has at least one
\* chunk and one upsert call, and a file without chunks is reported as an error
\* without any upsert call
C29_NoChunksIsAnError ==
    UploadEnded
    => /\ outcome.result = "returned" => (Len(outcome.ids) >= 1 /\ Len(upsertLog) = 1)
       /\ (lastCall.fn = "process_file" /\ lastCall.result.ids = <<>>)
          => /\ outcome.result \in {"RuntimeError", "HTTP400"}
             /\ upsertLog = <<>>

(***************************************************************************)
(* Properties of the FileProcessingWorker                                  *)
(***************************************************************************)

\* the file_processed signals among the signals, in the order emitted
FileSignals(signals) == SelectSeq(signals, LAMBDA s : s.signal = "file_processed")

\* the file names the file_processed signals carry
SignalledFiles(signals) ==
    [k \in 1..Len(FileSignals(signals)) |-> FileSignals(signals)[k].filename]

\* os.path.basename of the first n selected files, in selection order
SelectedNames(n) == [k \in 1..n |-> PathName(task.path[k])]

\* how often finished_all is among the signals
TimesFinished(signals) ==
    Cardinality({k \in 1..Len(signals) : signals[k] = FinishedAll})

\* a run of the worker has returned
WorkerReturned ==
    /\ pc = "idle"
    /\ outcome.op = "FileProcessingWorker"

\* the signals of a run: while it lasts, one file_processed for each file
\* reached, in selection order, and no finished_all; once it has returned, one
\* file_processed for each selected file, in selection order, then finished_all
\* as the one and last signal of its kind
WorkerSignalsInOrder ==
    /\ pc = "worker"
       => /\ SignalledFiles(probe.signals) = SelectedNames(probe.i)
          /\ TimesFinished(probe.signals) = 0
    /\ WorkerReturned
       => /\ SignalledFiles(probe.signals) = SelectedNames(Len(task.path))
          /\ TimesFinished(probe.signals) = 1
          /\ probe.signals[Len(probe.signals)] = FinishedAll

====
